---- MODULE Spec2Model ----
(***************************************************************************)
(* collector-tester: the load-test coordinator (LoadTestHarness,           *)
(* LoadGenerator, ContainerMonitor) and the harness lifecycle              *)
(* (CollectorTestHarness, find_free_port) as state machines.               *)
(*                                                                         *)
(* Spec is run_load_test on a started harness, HarnessSpec the harness     *)
(* lifecycle, RunSpec and MonitorSpec are LoadGenerator::run and           *)
(* monitor_continuous awaited on their own, StatsSpec the LoadStats rates. *)
(*                                                                         *)
(* Time is discrete.  One tick is 1/TicksPerSecond of a second; `now` is   *)
(* the monotonic clock read by Instant::now().  Time passes only while a   *)
(* task is suspended on a rate timer whose deadline lies in the future, so *)
(* a runnable task may be delayed for as long as the other one sleeps.     *)
(***************************************************************************)
EXTENDS Integers, Sequences, FiniteSets, TLC

\* ---------------------------------------------------------------- bounds
MaxDuration == 2
MaxInterval == 2
MaxUsage == 1
MaxCalls == 2
MaxNames == 1
TicksPerSecond == 1
MaxPort == 3
MaxTemplate == 3
MaxRunDuration == 10
MaxRunNames == 3
MaxAttributes == 2
MaxCount == 2
MaxElapsed == 2
MaxMonitorDuration == 6
MaxSamples == 3
MaxStamp == 2
MaxBytes == 2
MaxStore == 2
MaxWait == 2
MaxFlushes == 2
MaxOtherRate == 1
MaxPipelines == 2
MaxListed == 2
MaxApplications == 2

Durations == 1..MaxDuration
Intervals == 1..MaxInterval
Usages == 1..MaxUsage
\* spans_per_second values whose period is a whole number of ticks, and 0
SpanRates == {0} \cup {r \in 1..TicksPerSecond : TicksPerSecond % r = 0}
NameCounts == 0..MaxNames
\* LoadGenerator::run awaited on its own is explored with longer runs, more
\* span names and every attribute count; the load test keeps one count
RunDurations == 1..MaxRunDuration
\* monitor_continuous awaited on its own is explored with longer durations
MonitorDurations == 1..MaxMonitorDuration
RunNameCounts == 0..MaxRunNames
AttributeCounts == 0..MaxAttributes
\* the metrics and logs rates a LoadConfig may carry
OtherRates == 0..MaxOtherRate
LoadConfigs == [spans_per_second : SpanRates, duration : Durations,
                unique_span_names : NameCounts,
                span_attributes_count : {MaxAttributes},
                metrics_per_second : {MaxOtherRate},
                logs_per_second : {MaxOtherRate}]
RunConfigs == [spans_per_second : SpanRates, duration : RunDurations,
               unique_span_names : RunNameCounts,
               span_attributes_count : AttributeCounts,
               metrics_per_second : OtherRates,
               logs_per_second : OtherRates]
\* the ports the operating system hands out; never 0
Ports == 1..MaxPort

\* The configuration file is a sequence of tokens: the three placeholders
\* start_with_tag knows, and other text.
MockPlaceholder == "${MOCK_COLLECTOR_PORT}"
GrpcPlaceholder == "${COLLECTOR_GRPC_PORT}"
HttpPlaceholder == "${COLLECTOR_HTTP_PORT}"
Tokens == {MockPlaceholder, GrpcPlaceholder, HttpPlaceholder, "text"}
Templates == UNION {[1..n -> Tokens] : n \in 0..MaxTemplate}
\* a configuration that names each placeholder once
PassThrough == <<MockPlaceholder, GrpcPlaceholder, HttpPlaceholder>>

\* str::replace: every occurrence of `from` becomes `to`
Replace(text, from, to) ==
    [i \in DOMAIN text |-> IF text[i] = from THEN to ELSE text[i]]

\* Mutant: the gRPC and HTTP ports are swapped in the substitution.
Substitute_SwappedPorts(content, m, g, h) ==
    Replace(Replace(Replace(content, MockPlaceholder, ToString(m)),
                    GrpcPlaceholder, ToString(h)),
            HttpPlaceholder, ToString(g))

\* the three replace() calls on the configuration text, each with the
\* port's to_string()
Substitute(content, m, g, h) ==
    Replace(Replace(Replace(content, MockPlaceholder, ToString(m)),
                    GrpcPlaceholder, ToString(g)),
            HttpPlaceholder, ToString(h))

Signals == <<"traces", "metrics", "logs">>
SignalSet == {Signals[i] : i \in 1..Len(Signals)}

VARIABLES
    now,              \* Instant::now(), in ticks
    rl_pc,            \* run_load_test: "idle", "join", "returned", "panicked";
                      \* "run" when LoadGenerator::run is awaited on its own
    calls,            \* run_load_test calls started on this LoadTestHarness
    config,           \* the call's LoadConfig
    monitor_interval, \* the call's monitor_interval
    client,           \* the call's TelemetryClient: "none", "live", "shutdown"
    gen,              \* generator.run(): pc, start, next tick, stats, result;
                      \* history: ticks taken, flush calls, the flush's result
    emitted,          \* history: the spans the run has started and ended
    mon,              \* monitor_continuous(): pc, start, next tick, result;
                      \* history: the sample() calls that have returned
    samples,          \* ContainerMonitor.samples
    result,           \* what run_load_test returned
    first_failed,     \* history: the task whose failure happened first
    analysed_at,      \* history: the monitor's pc when analyse() was evaluated
    hpc,              \* CollectorTestHarness: where start_with_tag / shutdown is
    mock,             \* the mock endpoint: "none", "listening", "stopped"
    mock_port,        \* mock_server.addr().port(), 0 before it is known
    container,        \* the collector container: "none", "running", "stopped"
    bound,            \* ports held by find_free_port's probe listeners
    listener,         \* the port of start_with_tag's live probe listener, or 0
    other,            \* the port of a concurrent caller's live probe listener, or 0
    grpc_port,        \* collector_grpc_port, 0 before it is allocated
    http_port,        \* collector_http_port, 0 before it is allocated
    template,         \* the configuration file as read, before substitution
    config_content,   \* the configuration the container is started with
    hresult,          \* what start_with_tag / shutdown returned
    probes,           \* history: binds tried by the current find_free_port call
    stops,            \* history: the stop attempts of shutdown, in order
    load_stats,       \* the LoadStats whose rate methods are called
    rates,            \* what the rate methods returned, NoRates before the calls
    analyses,         \* what the analyse() calls on a given history returned
    verdict,          \* the last has_unbounded_growth / has_memory_leak /
                      \* would_exceed_limit_in call and its value
    store,            \* the spans the mock server has accumulated, in order
    assertion,        \* the CollectorAssertions call in progress on the mock
    client_calls,     \* history: the flush / shutdown calls made on a
                      \* TelemetryClient and the providers each one reached
    gen_all,          \* generator.run_all(): as gen, with the spans it emitted
    collector_config  \* a CollectorConfig going through
                      \* with_mock_exporter_endpoint

lvars == <<now, rl_pc, calls, config, monitor_interval, client, gen, emitted,
           mon, samples, result, first_failed, analysed_at>>
hvars == <<hpc, mock, mock_port, container, bound, listener, other, grpc_port,
           http_port, template, config_content, hresult, probes, stops>>
xvars == <<store, assertion>>
cvars == <<client_calls, gen_all, collector_config>>
avars == <<load_stats, rates, analyses, verdict, xvars, cvars>>
vars == <<lvars, hvars, avars>>

\* ---------------------------------------------------------------- results
\* the variants of enum Error
ErrorKinds == {"ExporterBuild", "Flush", "Shutdown", "PortAllocation",
               "MockServerStart", "MockServerShutdown", "NoContainerStats",
               "Docker", "Io", "TestContainers"}

NoResult == [kind |-> "none"]
Ok(v) == [kind |-> "Ok", value |-> v]
Err(e) == [kind |-> "Err", error |-> e]
IsOk(r) == r.kind = "Ok"
IsErr(r) == r.kind = "Err"

\* The first signal, in the order traces, metrics, logs, whose provider is
\* in `failing`; "ok" when none is.
FirstFailing(failing) ==
    IF \E i \in 1..Len(Signals) : Signals[i] \in failing
    THEN Signals[CHOOSE i \in 1..Len(Signals) :
                    /\ Signals[i] \in failing
                    /\ \A j \in 1..(i - 1) : Signals[j] \notin failing]
    ELSE "ok"

\* TelemetryClient::with_service_name: tracer, meter, logger provider, in order
ClientNew(failing) ==
    IF FirstFailing(failing) = "ok" THEN Ok("client")
    ELSE Err([kind |-> "ExporterBuild", signal |-> FirstFailing(failing)])

\* TelemetryClient::flush: flush_traces()?; flush_metrics()?; flush_logs()?
ClientFlush(failing) ==
    IF FirstFailing(failing) = "ok" THEN Ok("flushed")
    ELSE Err([kind |-> "Flush", signal |-> FirstFailing(failing)])

\* TelemetryClient::shutdown: the three providers, in order
ClientShutdown(failing) ==
    IF FirstFailing(failing) = "ok" THEN Ok("shutdown")
    ELSE Err([kind |-> "Shutdown", signal |-> FirstFailing(failing)])

\* Mutant: every provider is asked, whatever the ones before it returned.
ProvidersReached_All(failing) == Signals

\* the providers a flush() or shutdown() gets to: each `?` returns at the
\* first provider that fails, the ones after it are never asked
ProvidersReached(failing) ==
    IF FirstFailing(failing) = "ok" THEN Signals
    ELSE SubSeq(Signals, 1, CHOOSE i \in 1..Len(Signals) :
                               Signals[i] = FirstFailing(failing))

\* ---------------------------------------------------------------- analysis
\* usage_bytes is a u64; the word is scaled down to 6 bits
WordModulus == 64

RECURSIVE SumUsage(_)
SumUsage(s) == IF s = <<>> THEN 0 ELSE Head(s).usage_bytes + SumUsage(Tail(s))

MinUsage(s) == CHOOSE u \in {s[i].usage_bytes : i \in 1..Len(s)} :
                   \A i \in 1..Len(s) : u <= s[i].usage_bytes
MaxUsageOf(s) == CHOOSE u \in {s[i].usage_bytes : i \in 1..Len(s)} :
                   \A i \in 1..Len(s) : u >= s[i].usage_bytes

\* Mutant: the slope is taken over the last two samples.
CalculateGrowthRate_Adjacent(s) ==
    IF Len(s) < 2 THEN [num |-> 0, den |-> 1]
    ELSE LET first == s[Len(s) - 1]
             last == s[Len(s)]
             duration == last.timestamp - first.timestamp
         IN IF duration > 0
            THEN [num |-> (last.usage_bytes - first.usage_bytes) * TicksPerSecond,
                  den |-> duration]
            ELSE [num |-> 0, den |-> 1]

\* calculate_growth_rate: the two-point slope in bytes per second as the
\* fraction num/den (duration_secs is the tick difference over
\* TicksPerSecond); 0/1 with fewer than 2 samples or no time between them
CalculateGrowthRate(s) ==
    IF Len(s) < 2 THEN [num |-> 0, den |-> 1]
    ELSE LET first == s[1]
             last == s[Len(s)]
             duration == last.timestamp - first.timestamp
         IN IF duration > 0
            THEN [num |-> (last.usage_bytes - first.usage_bytes) * TicksPerSecond,
                  den |-> duration]
            ELSE [num |-> 0, den |-> 1]

MemoryAnalysisDefault ==
    [min_bytes |-> 0, max_bytes |-> 0, avg_bytes |-> 0, sample_count |-> 0,
     growth_rate |-> [num |-> 0, den |-> 1]]

\* usages.iter().sum::<u64>() leaves the word: a panic with overflow checks
\* (debug builds), a wrapped sum without them (release builds)
SumOverflows(s) == SumUsage(s) >= WordModulus
WrappingSum(s) == SumUsage(s) % WordModulus

\* Mutant: the first sample is treated as warm-up and left out.
Analyse_DropsOldest(s) ==
    IF s = <<>> \/ Tail(s) = <<>> THEN MemoryAnalysisDefault
    ELSE [min_bytes |-> MinUsage(Tail(s)),
          max_bytes |-> MaxUsageOf(Tail(s)),
          avg_bytes |-> WrappingSum(Tail(s)) \div Len(Tail(s)),
          sample_count |-> Len(Tail(s)),
          growth_rate |-> CalculateGrowthRate(Tail(s))]

\* ContainerMonitor::analyse
Analyse(s) ==
    IF s = <<>> THEN MemoryAnalysisDefault
    ELSE [min_bytes |-> MinUsage(s),
          max_bytes |-> MaxUsageOf(s),
          avg_bytes |-> WrappingSum(s) \div Len(s),
          sample_count |-> Len(s),
          growth_rate |-> CalculateGrowthRate(s)]

\* Mutant: a growth rate equal to the threshold counts as unbounded.
HasUnboundedGrowth_AtLeast(a, threshold) ==
    a.growth_rate.num >= threshold * a.growth_rate.den

\* MemoryAnalysis::has_unbounded_growth: growth_rate > threshold
HasUnboundedGrowth(a, threshold) ==
    a.growth_rate.num > threshold * a.growth_rate.den

\* LoadTestResult::has_memory_leak
HasMemoryLeak(r, threshold) == HasUnboundedGrowth(r.memory_analysis, threshold)

\* Mutant: the projection is made for flat and shrinking usage too.
WouldExceedLimitIn_NoGuard(a, limit, duration) ==
    a.max_bytes * a.growth_rate.den * TicksPerSecond + a.growth_rate.num * duration
        > limit * a.growth_rate.den * TicksPerSecond

\* MemoryAnalysis::would_exceed_limit_in: false when the growth rate is
\* <= 0, else max_bytes + growth_rate * duration.as_secs_f64() > limit,
\* with both sides multiplied by den * TicksPerSecond
WouldExceedLimitIn(a, limit, duration) ==
    IF a.growth_rate.num <= 0 THEN FALSE
    ELSE a.max_bytes * a.growth_rate.den * TicksPerSecond
             + a.growth_rate.num * duration
         > limit * a.growth_rate.den * TicksPerSecond

NoVerdict == [fn |-> "none"]

\* the spans a mock server can hold: a name and at most one value per key
SpanNames == {"a", "b"}
AttributeKeys == {"k"}
AttributeValues == {"x", "y"}
AttributeSets ==
    {as \in SUBSET (AttributeKeys \X AttributeValues) :
        \A p, q \in as : p[1] = q[1] => p = q}
ReceivedSpans == [name : SpanNames, attributes : AttributeSets]
Waits == 0..MaxWait

\* collector.spans().iter().any(|s| s.span().name == span_name)
HasSpanNamed(spans, span_name) ==
    \E i \in 1..Len(spans) : spans[i].name = span_name

\* expect_span_with_name(name).with_attribute(key, value) has a match
HasSpanWithAttribute(spans, span_name, key, value) ==
    \E i \in 1..Len(spans) :
        /\ spans[i].name = span_name
        /\ <<key, value>> \in spans[i].attributes

NoAssertion ==
    [fn |-> "none", pc |-> "idle", span_name |-> "", key |-> "", value |-> "",
     started |-> 0, deadline |-> 0, present_at_start |-> FALSE,
     waited |-> NoResult, inspections |-> 0, snapshot |-> <<>>,
     outcome |-> "none", finished |-> 0]

\* no assertion is running and the mock has received nothing
AssertionIdle == store = <<>> /\ assertion = NoAssertion

\* no analysis has been asked for
AnalysisIdle == analyses = <<>> /\ verdict = NoVerdict /\ AssertionIdle

\* the snapshots and the histories the analysis is tried on: Instant is
\* monotonic, so timestamps never decrease along a history
UsageValues == 0..MaxBytes \cup {WordModulus \div 2}
Snapshots == [timestamp : 0..MaxStamp, usage_bytes : UsageValues, call : {0}]
Histories ==
    {h \in UNION {[1..n -> Snapshots] : n \in 0..MaxSamples} :
        \A i \in 1..(Len(h) - 1) : h[i].timestamp <= h[i + 1].timestamp}
Thresholds == (0 - 1)..MaxBytes
Limits == 0..(MaxBytes + 1)
Futures == 0..MaxStamp

\* ---------------------------------------------------------------- init
LoadStatsDefault ==
    [spans_sent |-> 0, metrics_sent |-> 0, logs_sent |-> 0, duration |-> 0,
     errors |-> 0]

TaskIdle == [pc |-> "idle", start |-> 0, next |-> 0, result |-> NoResult,
             attempts |-> 0]
GenIdle == [pc |-> "idle", start |-> 0, next |-> 0, result |-> NoResult,
            stats |-> LoadStatsDefault, ticks |-> 0, flushes |-> 0,
            flush |-> NoResult]

NoConfig == [spans_per_second |-> 0, duration |-> 0, unique_span_names |-> 0,
             span_attributes_count |-> 0, metrics_per_second |-> 0,
             logs_per_second |-> 0]

GenAllIdle == [pc |-> "idle", start |-> 0, next |-> 0, result |-> NoResult,
               stats |-> LoadStatsDefault, ticks |-> 0, flushes |-> 0,
               flush |-> NoResult, emitted |-> <<>>]
NoCollectorConfig == [state |-> "none"]

\* no client call has been logged, run_all is not running, no configuration
\* is being rewritten
ExtraIdle ==
    /\ client_calls = <<>>
    /\ gen_all = GenAllIdle
    /\ collector_config = NoCollectorConfig

\* LoadStats::spans_per_second and its two siblings: count /
\* duration.as_secs_f64() as the fraction num/den, 0/1 when the duration is 0
PerSecond(count, duration) ==
    IF duration > 0 THEN [num |-> count * TicksPerSecond, den |-> duration]
    ELSE [num |-> 0, den |-> 1]

SpansPerSecond(stats) == PerSecond(stats.spans_sent, stats.duration)

\* Mutant: metrics_per_second was copied from spans_per_second unchanged.
MetricsPerSecond_OfSpans(stats) == PerSecond(stats.spans_sent, stats.duration)

MetricsPerSecond(stats) == PerSecond(stats.metrics_sent, stats.duration)

LogsPerSecond(stats) == PerSecond(stats.logs_sent, stats.duration)

NoRates == [called |-> FALSE]

\* no rate method has been called
StatsIdle ==
    load_stats = LoadStatsDefault /\ rates = NoRates /\ AnalysisIdle /\ ExtraIdle

\* the LoadStats values the rate methods are tried on (its fields are public)
StatsInputs == [spans_sent : 0..MaxCount, metrics_sent : 0..MaxCount,
                logs_sent : 0..MaxCount, duration : 0..MaxElapsed, errors : {0}]

\* No load test is under way.
LoadIdle ==
    /\ StatsIdle
    /\ now = 0
    /\ rl_pc = "idle"
    /\ calls = 0
    /\ config = NoConfig
    /\ monitor_interval = 0
    /\ client = "none"
    /\ gen = GenIdle
    /\ emitted = <<>>
    /\ mon = TaskIdle
    /\ samples = <<>>
    /\ result = NoResult
    /\ first_failed = "none"
    /\ analysed_at = "none"

\* A started harness: the mock endpoint on one port, the collector on two
\* others.
HarnessRunning ==
    /\ hpc = "running"
    /\ mock = "listening"
    /\ mock_port = 1
    /\ container = "running"
    /\ bound = {}
    /\ listener = 0
    /\ other = 0
    /\ grpc_port = 2
    /\ http_port = 3
    /\ template = PassThrough
    /\ config_content = Substitute(PassThrough, 1, 2, 3)
    /\ hresult = Ok("harness")
    /\ probes = 1
    /\ stops = <<>>

\* The state after LoadTestHarness::new: a started harness and a monitor
\* with no samples.
Init == LoadIdle /\ HarnessRunning

\* LoadGenerator::new(&client, config) with a live client, about to be run
\* on its own.
RunInit ==
    /\ HarnessRunning
    /\ StatsIdle
    /\ now = 0
    /\ rl_pc = "run"
    /\ calls = 0
    /\ config \in RunConfigs
    /\ monitor_interval = 0
    /\ client = "live"
    /\ gen = [GenIdle EXCEPT !.pc = "begin"]
    /\ emitted = <<>>
    /\ mon = TaskIdle
    /\ samples = <<>>
    /\ result = NoResult
    /\ first_failed = "none"
    /\ analysed_at = "none"

\* Before CollectorTestHarness::start: nothing is running.
HarnessInit ==
    /\ LoadIdle
    /\ hpc = "init"
    /\ mock = "none"
    /\ mock_port = 0
    /\ container = "none"
    /\ bound = {}
    /\ listener = 0
    /\ other = 0
    /\ grpc_port = 0
    /\ http_port = 0
    /\ template = <<>>
    /\ config_content = <<>>
    /\ hresult = NoResult
    /\ probes = 0
    /\ stops = <<>>

\* ---------------------------------------------------------------- run_load_test
\* run_load_test up to the join: the client is built and the two futures
\* are created; a client that cannot be built returns the error at once.
RunLoadTest(cfg, interval, failing) ==
    /\ rl_pc \in {"idle", "returned"}
    /\ calls < MaxCalls
    /\ calls' = calls + 1
    /\ config' = cfg
    /\ monitor_interval' = interval
    /\ first_failed' = "none"
    /\ analysed_at' = "none"
    /\ IF IsOk(ClientNew(failing))
       THEN /\ client' = "live"
            /\ rl_pc' = "join"
            /\ gen' = [GenIdle EXCEPT !.pc = "begin"]
            /\ mon' = [TaskIdle EXCEPT !.pc = "begin"]
            /\ result' = NoResult
       ELSE /\ client' = "none"
            /\ rl_pc' = "returned"
            /\ gen' = GenIdle
            /\ mon' = TaskIdle
            /\ result' = ClientNew(failing)
    /\ emitted' = <<>>
    /\ UNCHANGED <<hvars, avars, now, samples>>

\* Duration::from_secs_f64(1.0 / spans_per_second), in ticks
SpanInterval(rate) == TicksPerSecond \div rate

\* generate_span: the name index is spans_sent % unique_span_names, which
\* panics when unique_span_names is 0; otherwise the span is counted.
GenerateSpanPanics == config.unique_span_names = 0

\* Mutant: the span is counted before it is named.
SpanName_CountedFirst(stats) ==
    "load-span-" \o ToString((stats.spans_sent + 1) % config.unique_span_names)

\* format!("load-span-{}", stats.spans_sent % self.config.unique_span_names)
SpanName(stats) == "load-span-" \o ToString(stats.spans_sent % config.unique_span_names)

\* the keys format!("attr-{}", i) for i in 0..span_attributes_count, in
\* order (the values are random UUIDs)
SpanAttributes ==
    [i \in 1..config.span_attributes_count |-> "attr-" \o ToString(i - 1)]

\* generate_span: the span that is started and ended
GenerateSpan(stats) == [name |-> SpanName(stats), attributes |-> SpanAttributes]

\* Mutant: every tick also counts the metrics and logs of the configured
\* rates.
CountSpan_AllSignals(stats) ==
    [stats EXCEPT !.spans_sent = @ + 1,
                  !.metrics_sent = @ + config.metrics_per_second,
                  !.logs_sent = @ + config.logs_per_second]

\* stats.spans_sent += 1, the only counter run and run_all write
CountSpan(stats) == [stats EXCEPT !.spans_sent = @ + 1]

\* the task is polled: inside run_load_test's join, or awaited by its caller
Polled == rl_pc \in {"join", "run"}

\* Mutant: the flush result is discarded (let _ = self.client.flush()).
GenFinish_IgnoreFlush(stats, start, failing) ==
    Ok([stats EXCEPT !.duration = now - start])

\* self.client.flush()?; stats.duration = start.elapsed(); Ok(stats)
GenFinish(stats, start, failing) ==
    IF IsOk(ClientFlush(failing))
    THEN Ok([stats EXCEPT !.duration = now - start])
    ELSE ClientFlush(failing)

\* Mutant: the loop goes on while elapsed <= duration.
GenLoopTest_Inclusive(start) == now - start <= config.duration

\* while start.elapsed() < self.config.duration
GenLoopTest(start) == now - start < config.duration

\* LoadGenerator::run from its first poll to its first suspension: with a
\* span rate it waits for the ticker's first tick, without one it flushes
\* and returns.
GenStart(failing) ==
    /\ Polled
    /\ gen.pc = "begin"
    /\ IF config.spans_per_second > 0 /\ GenLoopTest(now)
       THEN /\ gen' = [gen EXCEPT !.start = now, !.next = now, !.pc = "tick"]
            /\ first_failed' = first_failed
       ELSE /\ gen' = [gen EXCEPT !.start = now, !.pc = "done",
                                  !.flushes = @ + 1,
                                  !.flush = ClientFlush(failing),
                                  !.result = GenFinish(LoadStatsDefault, now, failing)]
            /\ first_failed' = IF IsErr(ClientFlush(failing)) /\ first_failed = "none"
                               THEN "gen" ELSE first_failed
    /\ UNCHANGED <<hvars, avars, now, rl_pc, calls, config, monitor_interval, client,
                   emitted, mon, samples, result, analysed_at>>

\* span_ticker.tick().await completes; generate_span; the loop test; then
\* either the next tick is awaited or the run flushes and returns.
GenTick(failing) ==
    /\ Polled
    /\ gen.pc = "tick"
    /\ now >= gen.next
    /\ IF GenerateSpanPanics
       THEN /\ gen' = [gen EXCEPT !.pc = "panicked", !.ticks = @ + 1]
            /\ rl_pc' = "panicked"
            /\ emitted' = emitted
            /\ first_failed' = first_failed
       ELSE LET stats == CountSpan(gen.stats)
                next == gen.next + SpanInterval(config.spans_per_second)
            IN /\ rl_pc' = rl_pc
               /\ emitted' = Append(emitted, GenerateSpan(gen.stats))
               /\ IF GenLoopTest(gen.start)
                  THEN /\ gen' = [gen EXCEPT !.stats = stats, !.next = next,
                                             !.ticks = @ + 1]
                       /\ first_failed' = first_failed
                  ELSE /\ gen' = [gen EXCEPT !.stats = stats, !.next = next,
                                             !.ticks = @ + 1,
                                             !.pc = "done",
                                             !.flushes = @ + 1,
                                             !.flush = ClientFlush(failing),
                                             !.result = GenFinish(stats, gen.start, failing)]
                       /\ first_failed' =
                              IF IsErr(ClientFlush(failing)) /\ first_failed = "none"
                              THEN "gen" ELSE first_failed
    /\ UNCHANGED <<hvars, avars, now, calls, config, monitor_interval, client, mon,
                   samples, result, analysed_at>>

\* Mutant: the loop goes on while elapsed <= duration.
MonLoopTest_Inclusive(start) == now - start <= config.duration

\* while start.elapsed() < duration
MonLoopTest(start) == now - start < config.duration

\* monitor_continuous from its first poll to its first suspension; the
\* join polls it for the first time after the generator's first poll
MonStart ==
    /\ Polled
    /\ mon.pc = "begin"
    /\ gen.pc # "begin"
    /\ mon' = IF MonLoopTest(now)
              THEN [mon EXCEPT !.start = now, !.next = now, !.pc = "tick"]
              ELSE [mon EXCEPT !.start = now, !.pc = "done", !.result = Ok("samples")]
    /\ UNCHANGED <<hvars, avars, now, rl_pc, calls, config, monitor_interval, client, gen, emitted,
                   samples, result, first_failed, analysed_at>>

\* ticker.tick().await completes; sample() asks the stats stream
MonTick ==
    /\ Polled
    /\ mon.pc = "tick"
    /\ now >= mon.next
    /\ mon' = [mon EXCEPT !.next = mon.next + monitor_interval, !.pc = "sample"]
    /\ UNCHANGED <<hvars, avars, now, rl_pc, calls, config, monitor_interval, client, gen, emitted,
                   samples, result, first_failed, analysed_at>>

\* Mutant: the newest snapshot is kept first.
PushSample_Front(s, snapshot) == <<snapshot>> \o s

\* self.samples.push(snapshot.clone())
PushSample(s, snapshot) == Append(s, snapshot)

\* Mutant: a failed sample resets the history.
SamplesAfter_ClearOnError(s, feed, snapshot) ==
    IF feed = "ok" THEN PushSample(s, snapshot) ELSE <<>>

\* the history after sample(): `result?` and the else branch return before
\* the push, which only a stats item reaches
SamplesAfter(s, feed, snapshot) ==
    IF feed = "ok" THEN PushSample(s, snapshot) ELSE s

\* what sample() returns: Ok with a snapshot, the Docker error of an error
\* item, or the Timeout error of a stream that ended
SampleResult(feed) ==
    IF feed = "ok" THEN Ok("snapshot")
    ELSE Err([kind |-> IF feed = "err" THEN "Docker" ELSE "Timeout"])

\* Mutant: a failed sample is skipped and the loop goes on to the next tick.
MonAfterSample_Retry(r) ==
    IF MonLoopTest(mon.start)
    THEN [mon EXCEPT !.pc = "tick", !.attempts = @ + 1]
    ELSE [mon EXCEPT !.pc = "done", !.attempts = @ + 1, !.result = Ok("samples")]

\* self.sample().await?; and the loop test: an error ends
\* monitor_continuous with that error, a sample leads to the next tick or,
\* after the duration, to Ok(self.samples.clone())
MonAfterSample(r) ==
    IF IsErr(r)
    THEN [mon EXCEPT !.pc = "done", !.attempts = @ + 1, !.result = r]
    ELSE IF MonLoopTest(mon.start)
         THEN [mon EXCEPT !.pc = "tick", !.attempts = @ + 1]
         ELSE [mon EXCEPT !.pc = "done", !.attempts = @ + 1, !.result = Ok("samples")]

\* ContainerMonitor::sample once the stats stream has answered: `feed` is
\* "ok" (a stats item), "err" (an error item) or "end" (the stream ended);
\* after a sample the loop test decides between the next tick and Ok.
MonSample(feed, usage) ==
    /\ Polled
    /\ mon.pc = "sample"
    /\ mon' = MonAfterSample(SampleResult(feed))
    /\ samples' = SamplesAfter(samples, feed, [timestamp |-> now,
                                               usage_bytes |-> usage,
                                               call |-> calls])
    /\ first_failed' = IF feed # "ok" /\ first_failed = "none"
                       THEN "mon" ELSE first_failed
    /\ UNCHANGED <<hvars, avars, now, rl_pc, calls, config, monitor_interval, client, gen, emitted,
                   result, analysed_at>>

\* A rate timer's deadline lies in the future: the clock moves on.
AdvanceTime ==
    /\ Polled
    /\ \/ gen.pc = "tick" /\ gen.next > now
       \/ mon.pc = "tick" /\ mon.next > now
    /\ now' = now + 1
    /\ UNCHANGED <<hvars, avars, rl_pc, calls, config, monitor_interval, client, gen,
                   emitted, mon, samples, result, first_failed, analysed_at>>

\* Mutant: try_join! semantics, ready as soon as either task has failed.
JoinReady_TryJoin ==
    \/ gen.pc = "done" /\ mon.pc = "done"
    \/ gen.pc = "done" /\ IsErr(gen.result)
    \/ mon.pc = "done" /\ IsErr(mon.result)

\* Mutant: only the generator is awaited, the monitor runs detached.
JoinReady_GeneratorOnly == gen.pc = "done"

\* tokio::join!(generator.run(), monitor_continuous(..)) is ready
JoinReady == gen.pc = "done" /\ mon.pc = "done"

\* Mutant: the monitor's result is dropped unread.
Propagate_IgnoreMonitor(load_result, monitor_result) ==
    IF IsErr(load_result) THEN load_result ELSE Ok("both")

\* Mutant: the monitor's result is unwrapped before the generator's.
Propagate_MonitorFirst(load_result, monitor_result) ==
    IF IsErr(monitor_result) THEN monitor_result
    ELSE IF IsErr(load_result) THEN load_result
    ELSE Ok("both")

\* let load_stats = load_result?; monitor_result?;
Propagate(load_result, monitor_result) ==
    IF IsErr(load_result) THEN load_result
    ELSE IF IsErr(monitor_result) THEN monitor_result
    ELSE Ok("both")

\* run_load_test from the join to its return
JoinReturn(failing) ==
    /\ rl_pc = "join"
    /\ JoinReady
    /\ rl_pc' = "returned"
    /\ LET joined == Propagate(gen.result, mon.result)
       IN IF IsErr(joined)
          THEN /\ result' = joined
               /\ client' = client
               /\ analysed_at' = analysed_at
          ELSE /\ analysed_at' = mon.pc
               /\ client' = "shutdown"
               /\ result' = IF IsOk(ClientShutdown(failing))
                            THEN Ok([load_stats |-> gen.result.value,
                                     memory_analysis |-> Analyse(samples)])
                            ELSE ClientShutdown(failing)
    /\ UNCHANGED <<hvars, avars, now, calls, config, monitor_interval, gen, emitted, mon,
                   samples, first_failed>>

\* ---------------------------------------------------------------- harness
\* The ports a bind to port 0 may be given: those nothing listens on.
FreePorts == Ports \ (bound \cup (IF mock = "listening" THEN {mock_port} ELSE {}))

ContainerError(what) == Err([kind |-> "Container", what |-> what])

\* A handle goes out of scope without its shutdown having been called:
\* whether the resource behind it stops is up to the handle's owner crate,
\* `stops` is that outcome.
DropHandle(state, live, stops_it) ==
    IF state = live /\ stops_it THEN "stopped" ELSE state

\* MockServer::builder()...start().await
StartMock(ok, p) ==
    /\ hpc = "init"
    /\ p \in FreePorts
    /\ IF ok
       THEN /\ mock' = "listening"
            /\ mock_port' = p
            /\ hpc' = "grpc_bind"
            /\ hresult' = hresult
       ELSE /\ mock' = mock
            /\ mock_port' = mock_port
            /\ hpc' = "failed"
            /\ hresult' = ContainerError("failed to start mock server")
    /\ probes' = 0
    /\ UNCHANGED <<lvars, avars, container, bound, listener, other, grpc_port,
                   http_port, template, config_content, stops>>

\* find_free_port: TcpListener::bind("127.0.0.1:0"); a failed bind is the
\* function's error, which start_with_tag returns, dropping the mock handle.
FfpBind(ok, p, stops_it) ==
    /\ hpc \in {"grpc_bind", "http_bind"}
    /\ probes' = probes + 1
    /\ IF ok /\ p \in FreePorts
       THEN /\ listener' = p
            /\ bound' = bound \cup {p}
            /\ hpc' = IF hpc = "grpc_bind" THEN "grpc_addr" ELSE "http_addr"
            /\ UNCHANGED <<mock, hresult>>
       ELSE /\ UNCHANGED <<listener, bound>>
            /\ hpc' = "failed"
            /\ mock' = DropHandle(mock, "listening", stops_it)
            /\ hresult' = ContainerError("failed to find free port")
    /\ UNCHANGED <<lvars, avars, mock_port, container, other, grpc_port, http_port,
                   template, config_content, stops>>

\* Mutant: the listener outlives the call (it is leaked or handed back).
ReleaseProbe_Keep(held, p) == held

\* the listener is dropped when find_free_port returns
ReleaseProbe(held, p) == held \ {p}

\* find_free_port: listener.local_addr()?.port(), and the return, Ok or Err
FfpReturn(ok, stops_it) ==
    /\ hpc \in {"grpc_addr", "http_addr"}
    /\ bound' = ReleaseProbe(bound, listener)
    /\ listener' = 0
    /\ IF ok
       THEN /\ grpc_port' = IF hpc = "grpc_addr" THEN listener ELSE grpc_port
            /\ http_port' = IF hpc = "http_addr" THEN listener ELSE http_port
            /\ hpc' = IF hpc = "grpc_addr" THEN "http_bind" ELSE "read_config"
            /\ probes' = IF hpc = "grpc_addr" THEN 0 ELSE probes
            /\ UNCHANGED <<mock, hresult>>
       ELSE /\ UNCHANGED <<grpc_port, http_port, probes>>
            /\ hpc' = "failed"
            /\ mock' = DropHandle(mock, "listening", stops_it)
            /\ hresult' = ContainerError("failed to get local address")
    /\ UNCHANGED <<lvars, avars, mock_port, container, other, template, config_content, stops>>

\* std::fs::read_to_string(config_path)? and the substitution
ReadConfig(ok, content, stops_it) ==
    /\ hpc = "read_config"
    /\ IF ok
       THEN /\ template' = content
            /\ config_content' = Substitute(content, mock_port, grpc_port, http_port)
            /\ hpc' = "start_container"
            /\ UNCHANGED <<mock, hresult>>
       ELSE /\ UNCHANGED <<template, config_content>>
            /\ hpc' = "failed"
            /\ mock' = DropHandle(mock, "listening", stops_it)
            /\ hresult' = Err([kind |-> "Io"])
    /\ UNCHANGED <<lvars, avars, mock_port, container, bound, listener, other,
                   grpc_port, http_port, probes, stops>>

\* GenericImage::new(..)...start().await? and Ok(Self {..})
StartContainer(ok, stops_it) ==
    /\ hpc = "start_container"
    /\ IF ok
       THEN /\ container' = "running"
            /\ hpc' = "running"
            /\ mock' = mock
            /\ hresult' = Ok("harness")
       ELSE /\ container' = container
            /\ hpc' = "failed"
            /\ mock' = DropHandle(mock, "listening", stops_it)
            /\ hresult' = Err([kind |-> "TestContainers"])
    /\ UNCHANGED <<lvars, avars, mock_port, bound, listener, other, grpc_port,
                   http_port, template, config_content, probes, stops>>

\* what shutdown returns: only the mock endpoint's shutdown is awaited and
\* mapped to an error
ShutdownResult(mock_ok, container_ok) ==
    IF mock_ok THEN Ok("shutdown")
    ELSE ContainerError("failed to shutdown mock server")

\* CollectorTestHarness::shutdown(self): mock_server.shutdown().await, `?`
\* on its error; then self goes out of scope, on either path, and the
\* container handle is dropped, which asks the runtime to remove the
\* container without reporting the outcome.
Shutdown(mock_ok, container_ok) ==
    /\ hpc = "running"
    /\ hpc' = "shutdown"
    /\ mock' = IF mock_ok THEN "stopped" ELSE mock
    /\ container' = DropHandle(container, "running", container_ok)
    /\ stops' = <<[target |-> "mock", ok |-> mock_ok],
                  [target |-> "container", ok |-> container_ok]>>
    /\ hresult' = ShutdownResult(mock_ok, container_ok)
    /\ UNCHANGED <<lvars, avars, mock_port, bound, listener, other, grpc_port,
                   http_port, template, config_content, probes>>

\* collector_grpc_port() / collector_http_port()
CollectorGrpcPort == grpc_port
CollectorHttpPort == http_port

\* format!("http://127.0.0.1:{}", ..) and format!("http://127.0.0.1:{}/v1/traces", ..)
CollectorGrpcEndpoint == <<"http://127.0.0.1:", ToString(grpc_port)>>
CollectorHttpEndpoint == <<"http://127.0.0.1:", ToString(http_port)>>
CollectorTracesEndpoint == <<"http://127.0.0.1:", ToString(http_port), "/v1/traces">>

\* Another thread of the test process is in find_free_port (the tests call
\* it twice each before they build a harness): its bind ...
OtherBind(p) ==
    /\ hpc \notin {"failed", "shutdown"}
    /\ other = 0
    /\ p \in FreePorts
    /\ other' = p
    /\ bound' = bound \cup {p}
    /\ UNCHANGED <<lvars, avars, hpc, mock, mock_port, container, listener, grpc_port,
                   http_port, template, config_content, hresult, probes, stops>>

\* ... and its return
OtherReturn ==
    /\ other # 0
    /\ bound' = ReleaseProbe(bound, other)
    /\ other' = 0
    /\ UNCHANGED <<lvars, avars, hpc, mock, mock_port, container, listener, grpc_port,
                   http_port, template, config_content, hresult, probes, stops>>

HarnessNext ==
    \/ \E ok \in BOOLEAN, p \in Ports : StartMock(ok, p)
    \/ \E ok \in BOOLEAN, p \in Ports, stops_it \in BOOLEAN : FfpBind(ok, p, stops_it)
    \/ \E ok \in BOOLEAN, stops_it \in BOOLEAN : FfpReturn(ok, stops_it)
    \/ \E ok \in BOOLEAN, content \in Templates, stops_it \in BOOLEAN :
          ReadConfig(ok, content, stops_it)
    \/ \E ok \in BOOLEAN, stops_it \in BOOLEAN : StartContainer(ok, stops_it)
    \/ \E mock_ok \in BOOLEAN, container_ok \in BOOLEAN : Shutdown(mock_ok, container_ok)
    \/ \E p \in Ports : OtherBind(p)
    \/ OtherReturn

HarnessSpec == HarnessInit /\ [][HarnessNext]_vars

\* ---------------------------------------------------------------- load test
Next ==
    \/ \E cfg \in LoadConfigs, interval \in Intervals, failing \in SUBSET SignalSet :
          RunLoadTest(cfg, interval, failing)
    \/ \E failing \in SUBSET SignalSet : GenStart(failing)
    \/ \E failing \in SUBSET SignalSet : GenTick(failing)
    \/ MonStart
    \/ MonTick
    \/ \E feed \in {"ok", "err", "end"}, usage \in Usages : MonSample(feed, usage)
    \/ AdvanceTime
    \/ \E failing \in SUBSET SignalSet : JoinReturn(failing)

Spec == Init /\ [][Next]_vars

\* LoadGenerator::run awaited on its own: nothing else is scheduled, so its
\* ticker fires on schedule.
RunNext ==
    \/ \E failing \in SUBSET SignalSet : GenStart(failing)
    \/ \E failing \in SUBSET SignalSet : GenTick(failing)
    \/ AdvanceTime

RunSpec == RunInit /\ [][RunNext]_vars

\* ---------------------------------------------------------------- run_all
\* Mutant: the name index is not reduced modulo unique_span_names.
RunAllSpanName_Unbounded(stats) == "load-span-" \o ToString(stats.spans_sent)

\* run_all: format!("load-span-{}", stats.spans_sent % unique_span_names)
RunAllSpanName(stats) ==
    "load-span-" \o ToString(stats.spans_sent % config.unique_span_names)

\* run_all: the keys attr-i for i in 0..span_attributes_count
RunAllAttributes ==
    [i \in 1..config.span_attributes_count |-> "attr-" \o ToString(i - 1)]

\* run_all: the remainder by unique_span_names = 0 panics
RunAllPanics == config.unique_span_names = 0

\* run has ended on the same generator, run_all is awaited next
RunEnded == gen.pc \in {"done", "panicked"}

\* LoadGenerator::run_all from its first poll to its first suspension
GenAllStart(failing) ==
    /\ RunEnded
    /\ gen_all.pc = "idle"
    /\ gen_all' =
           IF config.spans_per_second > 0 /\ now - now < config.duration
           THEN [gen_all EXCEPT !.start = now, !.next = now, !.pc = "tick"]
           ELSE [gen_all EXCEPT
                    !.start = now, !.pc = "done", !.flushes = @ + 1,
                    !.flush = ClientFlush(failing),
                    !.result = IF IsOk(ClientFlush(failing))
                               THEN Ok([LoadStatsDefault EXCEPT !.duration = now - now])
                               ELSE ClientFlush(failing)]
    /\ UNCHANGED <<lvars, hvars, load_stats, rates, analyses, verdict, xvars,
                   client_calls, collector_config>>

\* run_all: span_ticker.tick().await completes, the span is built, started
\* and ended inline, counted, and the loop test decides between the next
\* tick and the flush
GenAllTick(failing) ==
    /\ RunEnded
    /\ gen_all.pc = "tick"
    /\ now >= gen_all.next
    /\ IF RunAllPanics
       THEN gen_all' = [gen_all EXCEPT !.pc = "panicked", !.ticks = @ + 1]
       ELSE LET stats == [gen_all.stats EXCEPT !.spans_sent = @ + 1]
                next == gen_all.next + SpanInterval(config.spans_per_second)
                span == [name |-> RunAllSpanName(gen_all.stats),
                         attributes |-> RunAllAttributes]
            IN IF now - gen_all.start < config.duration
               THEN gen_all' = [gen_all EXCEPT !.stats = stats, !.next = next,
                                               !.ticks = @ + 1,
                                               !.emitted = Append(@, span)]
               ELSE gen_all' =
                        [gen_all EXCEPT
                            !.stats = stats, !.next = next, !.ticks = @ + 1,
                            !.emitted = Append(@, span),
                            !.pc = "done", !.flushes = @ + 1,
                            !.flush = ClientFlush(failing),
                            !.result =
                                IF IsOk(ClientFlush(failing))
                                THEN Ok([stats EXCEPT
                                            !.duration = now - gen_all.start])
                                ELSE ClientFlush(failing)]
    /\ UNCHANGED <<lvars, hvars, load_stats, rates, analyses, verdict, xvars,
                   client_calls, collector_config>>

\* run_all waits for its ticker: the clock moves on
GenAllAdvance ==
    /\ gen_all.pc = "tick"
    /\ gen_all.next > now
    /\ now' = now + 1
    /\ UNCHANGED <<hvars, avars, rl_pc, calls, config, monitor_interval, client, gen,
                   emitted, mon, samples, result, first_failed, analysed_at>>

\* run and then run_all on one generator, each awaited on its own
RunAllNext ==
    \/ RunNext
    \/ \E failing \in SUBSET SignalSet : GenAllStart(failing)
    \/ \E failing \in SUBSET SignalSet : GenAllTick(failing)
    \/ GenAllAdvance

RunAllSpec == RunInit /\ [][RunAllNext]_vars

\* ContainerMonitor::new(container_id), monitor_continuous(duration,
\* interval) about to be awaited on its own
MonitorInit ==
    /\ HarnessRunning
    /\ StatsIdle
    /\ now = 0
    /\ rl_pc = "run"
    /\ calls = 0
    /\ \E d \in MonitorDurations : config = [NoConfig EXCEPT !.duration = d]
    /\ monitor_interval \in Intervals
    /\ client = "none"
    /\ gen = GenIdle
    /\ emitted = <<>>
    /\ mon = [TaskIdle EXCEPT !.pc = "begin"]
    /\ samples = <<>>
    /\ result = NoResult
    /\ first_failed = "none"
    /\ analysed_at = "none"

MonitorNext ==
    \/ MonStart
    \/ MonTick
    \/ \E feed \in {"ok", "err", "end"}, usage \in Usages : MonSample(feed, usage)
    \/ AdvanceTime

MonitorSpec == MonitorInit /\ [][MonitorNext]_vars

\* ---------------------------------------------------------------- MemoryAnalysis
\* a monitor holds some history and is not sampling
AnalysisInit ==
    /\ HarnessRunning
    /\ StatsIdle
    /\ now = 0
    /\ rl_pc = "idle"
    /\ calls = 0
    /\ config = NoConfig
    /\ monitor_interval = 0
    /\ client = "none"
    /\ gen = GenIdle
    /\ emitted = <<>>
    /\ mon = TaskIdle
    /\ samples \in Histories
    /\ result = NoResult
    /\ first_failed = "none"
    /\ analysed_at = "none"

\* monitor.analyse(), called up to twice on the same history, in a build
\* with or without overflow checks
CallAnalyse(overflow_checks) ==
    /\ Len(analyses) < 2
    /\ verdict = NoVerdict
    /\ IF overflow_checks /\ SumOverflows(samples)
       THEN /\ verdict' = [fn |-> "analyse", panicked |-> TRUE]
            /\ analyses' = analyses
       ELSE /\ verdict' = verdict
            /\ analyses' = Append(analyses, Analyse(samples))
    /\ UNCHANGED <<lvars, hvars, load_stats, rates, xvars, cvars>>

\* analysis.has_unbounded_growth(threshold) on the analysis just computed
CallHasUnboundedGrowth(threshold) ==
    /\ Len(analyses) = 1
    /\ verdict = NoVerdict
    /\ verdict' = [fn |-> "has_unbounded_growth", threshold |-> threshold,
                   value |-> HasUnboundedGrowth(analyses[1], threshold)]
    /\ UNCHANGED <<lvars, hvars, load_stats, rates, analyses, xvars, cvars>>

\* result.has_memory_leak(threshold) on a LoadTestResult holding it
CallHasMemoryLeak(threshold) ==
    /\ Len(analyses) = 1
    /\ verdict = NoVerdict
    /\ verdict' = [fn |-> "has_memory_leak", threshold |-> threshold,
                   value |-> HasMemoryLeak([load_stats |-> LoadStatsDefault,
                                            memory_analysis |-> analyses[1]],
                                           threshold)]
    /\ UNCHANGED <<lvars, hvars, load_stats, rates, analyses, xvars, cvars>>

\* analysis.would_exceed_limit_in(limit, duration)
CallWouldExceedLimitIn(limit, duration) ==
    /\ Len(analyses) = 1
    /\ verdict = NoVerdict
    /\ verdict' = [fn |-> "would_exceed_limit_in", limit |-> limit,
                   duration |-> duration,
                   value |-> WouldExceedLimitIn(analyses[1], limit, duration)]
    /\ UNCHANGED <<lvars, hvars, load_stats, rates, analyses, xvars, cvars>>

AnalysisNext ==
    \/ \E overflow_checks \in BOOLEAN : CallAnalyse(overflow_checks)
    \/ \E threshold \in Thresholds : CallHasUnboundedGrowth(threshold)
    \/ \E threshold \in Thresholds : CallHasMemoryLeak(threshold)
    \/ \E limit \in Limits, duration \in Futures :
          CallWouldExceedLimitIn(limit, duration)

AnalysisSpec == AnalysisInit /\ [][AnalysisNext]_vars

\* ---------------------------------------------------------------- CollectorAssertions
\* a mock server is up, nothing else runs
AssertInit ==
    /\ HarnessRunning
    /\ StatsIdle
    /\ now = 0
    /\ rl_pc = "idle"
    /\ calls = 0
    /\ config = NoConfig
    /\ monitor_interval = 0
    /\ client = "none"
    /\ gen = GenIdle
    /\ emitted = <<>>
    /\ mon = TaskIdle
    /\ samples = <<>>
    /\ result = NoResult
    /\ first_failed = "none"
    /\ analysed_at = "none"

\* the mock server receives a span from the collector, at any moment
MockReceive(span) ==
    /\ Len(store) < MaxStore
    /\ store' = Append(store, span)
    /\ UNCHANGED <<lvars, hvars, load_stats, rates, analyses, verdict, assertion, cvars>>

\* assert_span_not_exists is called: tokio::time::sleep(wait_duration) begins
StartNotExists(span_name, wait_duration) ==
    /\ assertion.pc = "idle"
    /\ assertion' = [NoAssertion EXCEPT !.fn = "assert_span_not_exists",
                                        !.pc = "sleep",
                                        !.span_name = span_name,
                                        !.started = now,
                                        !.deadline = now + wait_duration,
                                        !.present_at_start =
                                            HasSpanNamed(store, span_name)]
    /\ UNCHANGED <<lvars, hvars, load_stats, rates, analyses, verdict, store, cvars>>

\* Mutant: polling, the call ends as soon as the span is seen.
NotExistsReady_FailFast ==
    now >= assertion.deadline \/ HasSpanNamed(store, assertion.span_name)

\* tokio::time::sleep(wait_duration).await completes
NotExistsReady == now >= assertion.deadline

\* the with_collector closure of assert_span_not_exists: one look at the
\* store, panic when a span with the name is there
NotExistsCheck ==
    /\ assertion.pc = "sleep"
    /\ NotExistsReady
    /\ assertion' = [assertion EXCEPT
           !.pc = "done",
           !.inspections = @ + 1,
           !.snapshot = store,
           !.outcome = IF HasSpanNamed(store, assertion.span_name)
                       THEN "panic_found" ELSE "passed",
           !.finished = now]
    /\ UNCHANGED <<lvars, hvars, load_stats, rates, analyses, verdict, store, cvars>>

\* assert_span_has_attribute is called: assert_span_exists hands the
\* predicate and the timeout to wait_until
StartHasAttribute(span_name, key, value, timeout) ==
    /\ assertion.pc = "idle"
    /\ assertion' = [NoAssertion EXCEPT !.fn = "assert_span_has_attribute",
                                        !.pc = "wait",
                                        !.span_name = span_name,
                                        !.key = key,
                                        !.value = value,
                                        !.started = now,
                                        !.deadline = now + timeout,
                                        !.present_at_start =
                                            HasSpanNamed(store, span_name)]
    /\ UNCHANGED <<lvars, hvars, load_stats, rates, analyses, verdict, store, cvars>>

\* wait_until evaluates the predicate, finds it true and returns Ok
WaitFound ==
    /\ assertion.pc = "wait"
    /\ now <= assertion.deadline
    /\ HasSpanNamed(store, assertion.span_name)
    /\ assertion' = [assertion EXCEPT !.pc = "waited", !.waited = Ok("found")]
    /\ UNCHANGED <<lvars, hvars, load_stats, rates, analyses, verdict, store, cvars>>

\* wait_until gives up at the timeout and returns Err
WaitTimeout ==
    /\ assertion.pc = "wait"
    /\ now >= assertion.deadline
    /\ assertion' = [assertion EXCEPT !.pc = "waited", !.waited = Err("timeout")]
    /\ UNCHANGED <<lvars, hvars, load_stats, rates, analyses, verdict, store, cvars>>

\* Mutant: the result of the wait is dropped, the attributes are inspected
\* whatever it was.
AfterWait_Unchecked(waited) == [assertion EXCEPT !.pc = "inspect"]

\* .unwrap_or_else(|_| panic!("span '{}' not found within timeout ..."))
AfterWait(waited) ==
    IF IsErr(waited)
    THEN [assertion EXCEPT !.pc = "done", !.outcome = "panic_not_found",
                           !.finished = now]
    ELSE [assertion EXCEPT !.pc = "inspect"]

\* assert_span_exists returns or panics
ExistsReturn ==
    /\ assertion.pc = "waited"
    /\ assertion' = AfterWait(assertion.waited)
    /\ UNCHANGED <<lvars, hvars, load_stats, rates, analyses, verdict, store, cvars>>

\* the with_collector closure of assert_span_has_attribute:
\* expect_span_with_name(..).with_attribute(..).assert_exists()
InspectAttribute ==
    /\ assertion.pc = "inspect"
    /\ assertion' = [assertion EXCEPT
           !.pc = "done",
           !.inspections = @ + 1,
           !.snapshot = store,
           !.outcome = IF HasSpanWithAttribute(store, assertion.span_name,
                                               assertion.key, assertion.value)
                       THEN "passed" ELSE "panic_attribute",
           !.finished = now]
    /\ UNCHANGED <<lvars, hvars, load_stats, rates, analyses, verdict, store, cvars>>

\* time passes while the assertion sleeps or waits
AssertAdvance ==
    /\ assertion.pc \in {"sleep", "wait"}
    /\ now < assertion.deadline
    /\ now' = now + 1
    /\ UNCHANGED <<hvars, avars, rl_pc, calls, config, monitor_interval, client, gen,
                   emitted, mon, samples, result, first_failed, analysed_at>>

AssertNext ==
    \/ \E span \in ReceivedSpans : MockReceive(span)
    \/ \E span_name \in SpanNames, wait_duration \in Waits :
          StartNotExists(span_name, wait_duration)
    \/ NotExistsCheck
    \/ \E span_name \in SpanNames, key \in AttributeKeys,
          value \in AttributeValues, timeout \in Waits :
          StartHasAttribute(span_name, key, value, timeout)
    \/ WaitFound
    \/ WaitTimeout
    \/ ExistsReturn
    \/ InspectAttribute
    \/ AssertAdvance

AssertSpec == AssertInit /\ [][AssertNext]_vars

\* ---------------------------------------------------------------- TelemetryClient
\* a client has been built
ClientInit ==
    /\ HarnessRunning
    /\ StatsIdle
    /\ now = 0
    /\ rl_pc = "idle"
    /\ calls = 0
    /\ config = NoConfig
    /\ monitor_interval = 0
    /\ client = "live"
    /\ gen = GenIdle
    /\ emitted = <<>>
    /\ mon = TaskIdle
    /\ samples = <<>>
    /\ result = NoResult
    /\ first_failed = "none"
    /\ analysed_at = "none"

\* client.flush(), with `failing` the providers whose force_flush fails
CallFlush(failing) ==
    /\ client = "live"
    /\ Len(client_calls) < MaxFlushes
    /\ client_calls' = Append(client_calls,
                              [op |-> "flush", failing |-> failing,
                               reached |-> ProvidersReached(failing),
                               result |-> ClientFlush(failing)])
    /\ UNCHANGED <<lvars, hvars, load_stats, rates, analyses, verdict, xvars,
                   gen_all, collector_config>>

\* client.shutdown(), which consumes the client
CallShutdown(failing) ==
    /\ client = "live"
    /\ client' = "shutdown"
    /\ client_calls' = Append(client_calls,
                              [op |-> "shutdown", failing |-> failing,
                               reached |-> ProvidersReached(failing),
                               result |-> ClientShutdown(failing)])
    /\ UNCHANGED <<hvars, load_stats, rates, analyses, verdict, xvars, gen_all,
                   collector_config, now, rl_pc, calls, config, monitor_interval,
                   gen, emitted, mon, samples, result, first_failed, analysed_at>>

ClientNext ==
    \/ \E failing \in SUBSET SignalSet : CallFlush(failing)
    \/ \E failing \in SUBSET SignalSet : CallShutdown(failing)

ClientSpec == ClientInit /\ [][ClientNext]_vars

\* ---------------------------------------------------------------- CollectorConfig
\* serde_yaml values, as far as with_mock_exporter_endpoint looks at them:
\* a mapping is the sequence of its entries in insertion order
MockExporter == "otlp/mock"
ExporterNames == {"debug", MockExporter}
Endpoints == {"e1", "e2"}
SeqsUpTo(S, n) == UNION {[1..k -> S] : k \in 0..n}

\* the exporters section: not a mapping (absent, null, scalar), or a mapping
\* with distinct keys
ExporterEntries ==
    [key : ExporterNames, value : {"old"}]
ExportersValues ==
    {[kind |-> "null", entries |-> <<>>]} \cup
    {[kind |-> "mapping", entries |-> e] :
        e \in {m \in SeqsUpTo(ExporterEntries, 2) :
                  \A i, j \in 1..Len(m) : m[i].key = m[j].key => i = j}}

\* a pipeline: not a mapping, or a mapping whose exporters entry is missing,
\* not a sequence, or a sequence of names
ListedValues ==
    {[kind |-> "missing", items |-> <<>>], [kind |-> "scalar", items |-> <<>>]} \cup
    {[kind |-> "sequence", items |-> l] : l \in SeqsUpTo(ExporterNames, MaxListed)}
PipelineValues ==
    {[kind |-> "null", exporters |-> [kind |-> "missing", items |-> <<>>]]} \cup
    {[kind |-> "mapping", exporters |-> l] : l \in ListedValues}

\* service: not a mapping, or a mapping whose pipelines entry is missing,
\* not a mapping, or a mapping of pipelines
PipelinesValues ==
    {[kind |-> "missing", entries |-> <<>>], [kind |-> "scalar", entries |-> <<>>]} \cup
    {[kind |-> "mapping", entries |-> e] : e \in SeqsUpTo(PipelineValues, MaxPipelines)}
ServiceValues ==
    {[kind |-> "null", pipelines |-> [kind |-> "missing", entries |-> <<>>]]} \cup
    {[kind |-> "mapping", pipelines |-> q] : q \in PipelinesValues}

CollectorConfigs == [exporters : ExportersValues, service : ServiceValues]

ConfigError(message) == Err([kind |-> "Config", message |-> message])

\* seq.contains(&exporter_value)
Contains(seq, x) == \E i \in 1..Len(seq) : seq[i] = x

\* Mapping::insert: an existing key keeps its place and takes the new
\* value, a new key goes to the end
MapInsert(entries, key, value) ==
    IF \E i \in 1..Len(entries) : entries[i].key = key
    THEN [i \in 1..Len(entries) |->
             IF entries[i].key = key THEN [key |-> key, value |-> value]
             ELSE entries[i]]
    ELSE Append(entries, [key |-> key, value |-> value])

\* Mutant: the name is pushed without looking for it first.
PushExporter_Always(seq, name) == Append(seq, name)

\* if !seq.contains(&exporter_value) { seq.push(exporter_value) }
PushExporter(seq, name) == IF Contains(seq, name) THEN seq ELSE Append(seq, name)

\* the body of the loop over pipelines.iter_mut()
UpdatePipeline(pipeline, name) ==
    IF pipeline.kind # "mapping" THEN pipeline
    ELSE IF pipeline.exporters.kind = "sequence"
         THEN [pipeline EXCEPT !.exporters.items = PushExporter(@, name)]
    ELSE IF pipeline.exporters.kind = "missing"
         THEN [pipeline EXCEPT !.exporters = [kind |-> "sequence", items |-> <<name>>]]
    ELSE pipeline

\* CollectorConfig::update_pipelines_exporter, returning the new service
UpdatePipelinesExporter(service, name) ==
    IF service.kind # "mapping" THEN ConfigError("service must be a mapping")
    ELSE IF service.pipelines.kind # "mapping"
         THEN ConfigError("service.pipelines must be a mapping")
    ELSE Ok([service EXCEPT !.pipelines.entries =
                [i \in 1..Len(@) |-> UpdatePipeline(@[i], name)]])

\* CollectorConfig::with_mock_exporter_endpoint
WithMockExporterEndpoint(cfg, endpoint) ==
    IF cfg.exporters.kind # "mapping" THEN ConfigError("exporters must be a mapping")
    ELSE LET exporters == [cfg.exporters EXCEPT
                              !.entries = MapInsert(@, MockExporter, endpoint)]
             updated == UpdatePipelinesExporter(cfg.service, MockExporter)
         IN IF IsErr(updated) THEN updated
            ELSE Ok([exporters |-> exporters, service |-> updated.value])

\* a configuration has been parsed
ConfigInit ==
    /\ HarnessRunning
    /\ now = 0
    /\ rl_pc = "idle"
    /\ calls = 0
    /\ config = NoConfig
    /\ monitor_interval = 0
    /\ client = "none"
    /\ gen = GenIdle
    /\ emitted = <<>>
    /\ mon = TaskIdle
    /\ samples = <<>>
    /\ result = NoResult
    /\ first_failed = "none"
    /\ analysed_at = "none"
    /\ load_stats = LoadStatsDefault
    /\ rates = NoRates
    /\ AnalysisIdle
    /\ client_calls = <<>>
    /\ gen_all = GenAllIdle
    /\ \E cfg \in CollectorConfigs :
          collector_config = [state |-> "parsed", input |-> cfg, value |-> cfg,
                              endpoints |-> <<>>, result |-> NoResult]

\* config = config.with_mock_exporter_endpoint(endpoint)?
ApplyMockExporter(endpoint) ==
    /\ collector_config.state = "parsed"
    /\ Len(collector_config.endpoints) < MaxApplications
    /\ LET r == WithMockExporterEndpoint(collector_config.value, endpoint)
       IN collector_config' =
              IF IsOk(r)
              THEN [collector_config EXCEPT !.value = r.value,
                                            !.endpoints = Append(@, endpoint),
                                            !.result = r]
              ELSE [collector_config EXCEPT !.state = "failed",
                                            !.endpoints = Append(@, endpoint),
                                            !.result = r]
    /\ UNCHANGED <<lvars, hvars, load_stats, rates, analyses, verdict, xvars,
                   client_calls, gen_all>>

ConfigNext == \E endpoint \in Endpoints : ApplyMockExporter(endpoint)

ConfigSpec == ConfigInit /\ [][ConfigNext]_vars

\* ---------------------------------------------------------------- LoadStats
\* a LoadStats value is at hand
StatsInit ==
    /\ HarnessRunning
    /\ now = 0
    /\ rl_pc = "idle"
    /\ calls = 0
    /\ config = NoConfig
    /\ monitor_interval = 0
    /\ client = "none"
    /\ gen = GenIdle
    /\ emitted = <<>>
    /\ mon = TaskIdle
    /\ samples = <<>>
    /\ result = NoResult
    /\ first_failed = "none"
    /\ analysed_at = "none"
    /\ load_stats \in StatsInputs
    /\ rates = NoRates
    /\ AnalysisIdle
    /\ ExtraIdle

\* the three rate methods are called on it
CallRates ==
    /\ ~rates.called
    /\ rates' = [called |-> TRUE,
                 spans |-> SpansPerSecond(load_stats),
                 metrics |-> MetricsPerSecond(load_stats),
                 logs |-> LogsPerSecond(load_stats)]
    /\ UNCHANGED <<lvars, hvars, load_stats, analyses, verdict, xvars, cvars>>

StatsNext == CallRates

StatsSpec == StatsInit /\ [][StatsNext]_vars

\* Fairness: a due rate timer fires and time moves on to the next deadline,
\* the stats stream answers or ends, flush returns, and the join completes.
\* Nothing obliges the caller to call run_load_test again.
Fairness ==
    /\ WF_vars(AdvanceTime)
    /\ WF_vars(\E failing \in SUBSET SignalSet : GenStart(failing))
    /\ WF_vars(\E failing \in SUBSET SignalSet : GenTick(failing))
    /\ WF_vars(MonStart)
    /\ WF_vars(MonTick)
    /\ WF_vars(\E feed \in {"ok", "err", "end"}, usage \in Usages : MonSample(feed, usage))
    /\ WF_vars(\E failing \in SUBSET SignalSet : JoinReturn(failing))

FairSpec == Spec /\ Fairness

\* ================================================================ claims
GenRunning == gen.pc \in {"begin", "tick"}
MonRunning == mon.pc \in {"begin", "tick", "sample"}
Returned == rl_pc = "returned"
\* the call got as far as the join (its client was built)
Joined == gen.pc # "idle"
\* the samples appended during the current call
SamplesOfCall == SelectSeq(samples, LAMBDA x : x.call = calls)

\* C1: whenever run_load_test has returned, Ok or Err, from the join, both
\* generator.run() and monitor_continuous() have returned; no task is still
\* running at the return.  (A call whose client cannot be built returns
\* before either task exists.)
C1_ReturnsAfterBoth ==
    Returned =>
        /\ ~GenRunning /\ ~MonRunning
        /\ Joined => /\ gen.pc = "done" /\ gen.result # NoResult
                     /\ mon.pc = "done" /\ mon.result # NoResult
        /\ ~Joined => /\ mon.pc = "idle"
                      /\ IsErr(result) /\ result.error.kind = "ExporterBuild"

\* C1 witness: a call has returned after a run in which the generator
\* emitted several spans and the monitor took several samples.
C1_Witness ==
    /\ Returned /\ Joined
    /\ gen.stats.spans_sent >= 2
    /\ Len(SamplesOfCall) >= 2

\* C2: when exactly one of the two tasks failed, run_load_test returns that
\* task's error, and at the return the other task has run to completion
\* with an Ok result.
C2_SingleFailureReturned ==
    Returned /\ Joined =>
        /\ (IsErr(gen.result) /\ ~IsErr(mon.result)) =>
               result = gen.result /\ mon.pc = "done" /\ IsOk(mon.result)
        /\ (IsErr(mon.result) /\ ~IsErr(gen.result)) =>
               result = mon.result /\ gen.pc = "done" /\ IsOk(gen.result)

\* C2 witness: the monitor failed on its first sample, the generator went
\* on for its full duration and flushed, and the monitor's error came back.
C2_Witness ==
    /\ Returned
    /\ IsErr(mon.result) /\ SamplesOfCall = <<>>
    /\ IsOk(gen.result)
    /\ gen.result.value.spans_sent >= 2
    /\ gen.result.value.duration >= config.duration
    /\ result = mon.result

BothFailed == Joined /\ IsErr(gen.result) /\ IsErr(mon.result)

\* C3 as claimed: when both tasks failed, the error returned is that of the
\* task that failed first.
C3_FirstFailureReturned ==
    Returned /\ BothFailed =>
        result = IF first_failed = "gen" THEN gen.result ELSE mon.result

\* C3 amended: when both tasks failed, the error returned is the load
\* generator's, whichever task failed first.
C3_GeneratorErrorReturned ==
    Returned /\ BothFailed => result = gen.result /\ result # mon.result

\* C3 witness: the monitor failed first, the generator's flush failed
\* later, and the flush error is what came back.
C3_Witness ==
    /\ Returned /\ BothFailed
    /\ first_failed = "mon"
    /\ result = gen.result

\* C4: the sample history changes only by the monitor's sample step
\* appending one snapshot; analyse() is evaluated only once
\* monitor_continuous has finished; and an Ok result pairs analyse() over
\* the retained samples with the stats the generator returned.
C4_AnalysisAfterMonitor ==
    /\ [](/\ analysed_at \in {"none", "done"}
          /\ (Returned /\ IsOk(result)) =>
                 /\ result.value.memory_analysis = Analyse(samples)
                 /\ result.value.load_stats = gen.result.value)
    /\ [][samples' # samples =>
              /\ rl_pc = "join" /\ mon.pc = "sample"
              /\ Len(samples') = Len(samples) + 1
              /\ SubSeq(samples', 1, Len(samples)) = samples]_vars

\* C4 witness: a call returned Ok with an analysis of several samples.
C4_Witness ==
    /\ Returned /\ IsOk(result)
    /\ analysed_at = "done"
    /\ result.value.memory_analysis.sample_count >= 2
    /\ result.value.load_stats.spans_sent >= 1

\* C5: the memory analysis a call returns is computed from the samples
\* taken during that call only.
C5_AnalysisOfThisCallOnly ==
    (Returned /\ IsOk(result)) =>
        result.value.memory_analysis = Analyse(SamplesOfCall)

\* C6: every run_load_test call that reached the join eventually returns.
C6_EveryCallReturns == (rl_pc = "join") ~> Returned

\* the first stop attempt of shutdown that failed, 0 when none did
FirstFailedStop ==
    IF \E i \in 1..Len(stops) : ~stops[i].ok
    THEN CHOOSE i \in 1..Len(stops) :
             ~stops[i].ok /\ \A j \in 1..(i - 1) : stops[j].ok
    ELSE 0

\* C7: shutdown tries to stop both the container and the mock endpoint on
\* every path, and returns the first error it met (Ok when it met none).
C7_ShutdownSurfacesFirstError ==
    hpc = "shutdown" =>
        /\ {stops[i].target : i \in 1..Len(stops)} = {"mock", "container"}
        /\ FirstFailedStop = 0 => IsOk(hresult)
        /\ FirstFailedStop # 0 => IsErr(hresult)

\* C8: start either returns a harness with the mock endpoint and the
\* container both running, or an error with nothing left running.
C8_StartIsAtomic ==
    /\ hpc = "running" => mock = "listening" /\ container = "running"
    /\ hpc = "failed" => mock # "listening" /\ container # "running"

\* C9: the two ports a harness holds are distinct and non-zero.
C9_PortsDistinct ==
    hpc \in {"read_config", "start_container", "running", "shutdown"} =>
        /\ grpc_port # 0 /\ http_port # 0
        /\ grpc_port # http_port

InProbe == hpc \in {"grpc_addr", "http_addr"}

\* C10: a find_free_port call binds once; a failed bind is returned as the
\* error with no second bind; and the probe socket is held only inside the
\* call: once the port is returned nothing of the caller stays bound.
C10_SingleProbeReleased ==
    /\ probes <= 1
    /\ (listener # 0) <=> InProbe
    /\ bound = {listener, other} \ {0}
    /\ (IsErr(hresult) /\ hresult.error.kind = "Container"
            /\ hresult.error.what = "failed to find free port") =>
           hpc = "failed" /\ probes = 1 /\ listener = 0

\* C10 witness: the first probe has returned its port and released it while
\* another caller still holds its own probe socket.
C10_Witness ==
    /\ hpc = "http_bind"
    /\ grpc_port # 0 /\ grpc_port \notin bound
    /\ other # 0

\* the configuration carries the ports: every placeholder of the file is
\* replaced by the decimal text of its port, the rest of the file is as read
PortsInjected ==
    /\ Len(config_content) = Len(template)
    /\ \A i \in 1..Len(template) :
           config_content[i] =
               CASE template[i] = MockPlaceholder -> ToString(mock_port)
                 [] template[i] = GrpcPlaceholder -> ToString(grpc_port)
                 [] template[i] = HttpPlaceholder -> ToString(http_port)
                 [] OTHER -> template[i]

\* C11: the container is started only once the mock endpoint is listening
\* and both ports are allocated, with a configuration that carries exactly
\* the mock endpoint's port and the two allocated ports; and the ports and
\* endpoint strings the running harness reports are the injected values.
C11_StartedWithInjectedPorts ==
    /\ [][(container # "running" /\ container' = "running") =>
              /\ mock = "listening" /\ mock' = "listening"
              /\ mock_port \in Ports /\ grpc_port \in Ports /\ http_port \in Ports
              /\ PortsInjected
              /\ UNCHANGED <<mock_port, grpc_port, http_port, config_content>>]_vars
    /\ [](hpc = "running" =>
              /\ PortsInjected
              /\ \A i \in 1..Len(template) :
                     /\ template[i] = GrpcPlaceholder =>
                            /\ config_content[i] = ToString(CollectorGrpcPort)
                            /\ CollectorGrpcEndpoint = <<"http://127.0.0.1:", config_content[i]>>
                     /\ template[i] = HttpPlaceholder =>
                            /\ config_content[i] = ToString(CollectorHttpPort)
                            /\ CollectorHttpEndpoint = <<"http://127.0.0.1:", config_content[i]>>
                            /\ CollectorTracesEndpoint =
                                   <<"http://127.0.0.1:", config_content[i], "/v1/traces">>)

\* C11 witness: a harness is running on three different ports with a
\* configuration that named each placeholder.
C11_Witness ==
    /\ hpc = "running" /\ container = "running" /\ mock = "listening"
    /\ template = PassThrough
    /\ config_content = <<ToString(mock_port), ToString(grpc_port), ToString(http_port)>>
    /\ grpc_port # http_port /\ mock_port \notin {grpc_port, http_port}

\* ---------------------------------------------------------------- LoadGenerator::run
RunReturned == gen.pc = "done"
RunReturnedOk == gen.pc = "done" /\ IsOk(gen.result)

\* C13: the LoadStats that run returns has duration >= config.duration, for
\* every LoadConfig, spans_per_second = 0 included; and no counter of the
\* stats ever decreases during the run.
C13_DurationAndCounters ==
    /\ [](RunReturnedOk => gen.result.value.duration >= config.duration)
    /\ [][/\ gen'.stats.spans_sent >= gen.stats.spans_sent
           /\ gen'.stats.metrics_sent >= gen.stats.metrics_sent
           /\ gen'.stats.logs_sent >= gen.stats.logs_sent
           /\ gen'.stats.errors >= gen.stats.errors]_vars

\* C14: an emission that fails is counted in errors and does not end the
\* run: the run is never aborted by an emission, and spans_sent + errors is
\* the number of ticks taken.
C14_FailureCountedNotFatal ==
    /\ gen.pc # "panicked"
    /\ gen.stats.spans_sent + gen.stats.errors = gen.ticks

\* C15: the k-th span of a run (k from 0) is named load-span-(k mod
\* unique_span_names), so any unique_span_names consecutive spans have
\* pairwise different names; every span carries span_attributes_count
\* attributes, with the keys attr-0 .. attr-(n-1) in order.
C15_RoundRobinNames ==
    /\ \A k \in 1..Len(emitted) :
           /\ emitted[k].name =
                  "load-span-" \o ToString((k - 1) % config.unique_span_names)
           /\ Len(emitted[k].attributes) = config.span_attributes_count
           /\ \A i \in 1..config.span_attributes_count :
                  emitted[k].attributes[i] = "attr-" \o ToString(i - 1)
    /\ \A k \in 1..(Len(emitted) - config.unique_span_names + 1) :
           Cardinality({emitted[j].name : j \in k..(k + config.unique_span_names - 1)})
               = config.unique_span_names

\* C15 witness: a run with 3 names and 2 attributes has emitted 5 spans,
\* so the names have wrapped around.
C15_Witness ==
    /\ config.unique_span_names = 3 /\ config.span_attributes_count = 2
    /\ Len(emitted) = 5
    /\ emitted[4].name = emitted[1].name /\ emitted[5].name = emitted[2].name
    /\ emitted[1].name # emitted[2].name /\ emitted[2].name # emitted[3].name

\* C16: run flushes the client exactly once, when the loop is over and
\* before it returns (also when no span was emitted); nothing is emitted
\* once the flush was called; Ok(stats) is returned only when the flush
\* succeeded, and a flush error is returned in place of the stats.
C16_FlushOnceBeforeReturn ==
    /\ [](/\ gen.pc \in {"begin", "tick"} => gen.flushes = 0
          /\ RunReturned =>
                 /\ gen.flushes = 1
                 /\ IsOk(gen.result) <=> IsOk(gen.flush)
                 /\ IsErr(gen.flush) => gen.result = gen.flush
                 /\ IsOk(gen.result) =>
                        gen.result.value.spans_sent = Len(emitted))
    /\ [][gen.flushes >= 1 => emitted' = emitted /\ gen' = gen]_vars

\* C16 witness: a run emitted spans, its one flush failed, and the flush
\* error is what it returned.
C16_Witness ==
    /\ RunReturned /\ gen.flushes = 1
    /\ Len(emitted) >= 2
    /\ IsErr(gen.flush) /\ gen.result = gen.flush

\* the ticker's period, and the run's duration in periods when that is a
\* whole number
Period == SpanInterval(config.spans_per_second)
WholePeriods == config.duration % Period = 0
CeilDiv(a, b) == (a + b - 1) \div b
\* |spans_sent - r*D| <= r*D / 10, with r*D = duration / period
WithinTenPercent(sent) ==
    LET diff == sent * Period - config.duration
    IN 10 * (IF diff >= 0 THEN diff ELSE 0 - diff) <= config.duration

\* C17 as claimed: with timers on schedule, a run with rate r > 0 and
\* duration D returns spans_sent within 10% of r*D.
C17_WithinTenPercentOfRate ==
    (RunReturned /\ config.spans_per_second > 0) =>
        WithinTenPercent(gen.stats.spans_sent)

\* C17 amended: with timers on schedule the run emits one span at every
\* period boundary from its start up to and including the first boundary
\* at or after D, ceil(D / period) + 1 spans in all; over a whole number
\* r*D of periods that is within 10% of r*D exactly when r*D >= 10; and
\* once the loop has observed elapsed >= D nothing more is emitted.
C17_OneSpanPerBoundary ==
    /\ [](config.spans_per_second > 0 =>
              /\ gen.pc = "tick" =>
                     /\ gen.stats.spans_sent = gen.ticks
                     /\ gen.next = gen.start + gen.ticks * Period
                     /\ now <= gen.next
                     /\ gen.ticks > 0 => gen.next - Period - gen.start < config.duration
              /\ RunReturned =>
                     /\ gen.stats.spans_sent = CeilDiv(config.duration, Period) + 1
                     /\ WholePeriods =>
                            (WithinTenPercent(gen.stats.spans_sent)
                                 <=> config.duration \div Period >= 10))
    /\ [][emitted' # emitted =>
              /\ gen.pc = "tick" /\ now = gen.next
              /\ Len(emitted') = Len(emitted) + 1]_vars

\* C17 witness: a run over 10 periods has returned with 11 spans sent.
C17_Witness ==
    /\ RunReturned /\ config.spans_per_second > 0
    /\ config.duration = 10 * Period
    /\ gen.stats.spans_sent = 11

\* ---------------------------------------------------------------- LoadStats rates
\* the fraction f is count per second over `duration` ticks
IsRateOf(f, count, duration) ==
    /\ f.den > 0
    /\ IF duration > 0
       THEN f.num * duration = count * TicksPerSecond * f.den
       ELSE f.num = 0

\* C19: spans_per_second, metrics_per_second and logs_per_second are each
\* their own count divided by the elapsed seconds, and 0 when no time
\* elapsed; none divides by zero.
C19_RatesAreCountOverElapsed ==
    rates.called =>
        /\ IsRateOf(rates.spans, load_stats.spans_sent, load_stats.duration)
        /\ IsRateOf(rates.metrics, load_stats.metrics_sent, load_stats.duration)
        /\ IsRateOf(rates.logs, load_stats.logs_sent, load_stats.duration)

\* C19 witness: the rates of stats with three different counts over a
\* positive duration have been computed.
C19_Witness ==
    /\ rates.called
    /\ load_stats.duration = 2
    /\ load_stats.spans_sent = 2 /\ load_stats.metrics_sent = 1
    /\ load_stats.logs_sent = 0
    /\ rates.spans.num = 2 * TicksPerSecond /\ rates.spans.den = 2

\* ---------------------------------------------------------------- monitor_continuous
\* the sample() calls of this monitoring run that failed
FailedSamples == mon.attempts - Len(SamplesOfCall)

\* C20: the first failed sample ends monitor_continuous with that error:
\* at most one sample() ever fails in a run, the run is then over with the
\* error sample() returned, and nothing is sampled afterwards.
C20_FailedSampleIsFatal ==
    /\ [](/\ FailedSamples \in {0, 1}
          /\ FailedSamples = 1 <=> IsErr(mon.result)
          /\ IsErr(mon.result) =>
                 /\ mon.pc = "done"
                 /\ mon.result \in {SampleResult("err"), SampleResult("end")})
    /\ [][(IsErr(mon.result) /\ calls' = calls) =>
              mon' = mon /\ samples' = samples]_vars

\* C20 witness: the second sample of a run failed while the duration had
\* not yet elapsed, and the run ended there with one sample retained.
C20_Witness ==
    /\ IsErr(mon.result) /\ mon.pc = "done"
    /\ mon.attempts = 2 /\ Len(SamplesOfCall) = 1
    /\ now - mon.start < config.duration

\* C21: infrastructure failures carry their own error kinds: a stats feed
\* that yields nothing fails sample() with the no-stats kind, never with a
\* timeout kind, and port allocation, mock endpoint start and mock endpoint
\* shutdown failures each have their own declared kind.
C21_ErrorKindsDistinguish ==
    /\ IsErr(mon.result) =>
           /\ mon.result.error.kind \in ErrorKinds
           /\ mon.result = SampleResult("end") =>
                  mon.result.error.kind = "NoContainerStats"
    /\ IsErr(hresult) =>
           /\ hresult.error.kind \in ErrorKinds
           /\ hresult.error.kind \in {"PortAllocation", "MockServerStart",
                                       "MockServerShutdown"}
                  \/ hresult.error.kind \in {"Io", "TestContainers"}

WithinOneOfRatio(count) ==
    LET diff == count * monitor_interval - config.duration
    IN (IF diff >= 0 THEN diff ELSE 0 - diff) <= monitor_interval

MonitorReturnedOk == mon.pc = "done" /\ IsOk(mon.result)

\* C23 as claimed: from an empty history, with every sample succeeding and
\* timers on schedule, monitor_continuous(D, I) retains D/I samples give or
\* take one.
C23_SamplesWithinOneOfRatio == MonitorReturnedOk => WithinOneOfRatio(Len(samples))

\* C23 amended: the run takes one sample at every interval boundary from
\* its start up to and including the first boundary at or after D,
\* ceil(D / I) + 1 samples in all, which is D/I + 1 when D is a whole
\* number of intervals; it does not tick again once the loop has observed
\* elapsed >= D.
C23_OneSamplePerBoundary ==
    /\ \A k \in 1..Len(samples) :
           /\ samples[k].timestamp = mon.start + (k - 1) * monitor_interval
           /\ k < Len(samples) => samples[k].timestamp - mon.start < config.duration
    /\ mon.pc = "tick" =>
           /\ mon.next = mon.start + Len(samples) * monitor_interval
           /\ Len(samples) > 0 =>
                  samples[Len(samples)].timestamp - mon.start < config.duration
    /\ MonitorReturnedOk =>
           /\ Len(samples) = CeilDiv(config.duration, monitor_interval) + 1
           /\ samples[Len(samples)].timestamp - mon.start >= config.duration
           /\ config.duration % monitor_interval = 0 =>
                  /\ Len(samples) = config.duration \div monitor_interval + 1
                  /\ WithinOneOfRatio(Len(samples))

\* C23 witness: a run of 4 ticks at an interval of 2 returned with samples
\* taken at 0, 2 and 4.
C23_Witness ==
    /\ MonitorReturnedOk
    /\ config.duration = 4 /\ monitor_interval = 2
    /\ Len(samples) = 3 /\ samples[3].timestamp = mon.start + 4

\* ---------------------------------------------------------------- C24 .. C27
FirstSample == samples[1]
LastSample == samples[Len(samples)]
Analysed == Len(analyses) >= 1

\* C24: analyse() is a pure recomputation from the sample history: a call
\* leaves the history as it was, two calls with no sample in between return
\* equal results, sample_count is the length of the history, and on an empty
\* history min, max, avg, sample_count and the growth rate are all zero.
C24_AnalysePure ==
    /\ [](\A i \in 1..Len(analyses) :
            /\ analyses[i].sample_count = Len(samples)
            /\ analyses[i] = analyses[1]
            /\ samples = <<>> =>
                   /\ analyses[i].min_bytes = 0
                   /\ analyses[i].max_bytes = 0
                   /\ analyses[i].avg_bytes = 0
                   /\ analyses[i].sample_count = 0
                   /\ analyses[i].growth_rate.num = 0)
    /\ [][analyses' # analyses => samples' = samples]_vars

C24_Witness ==
    /\ Len(analyses) = 2
    /\ Len(samples) = 3
    /\ analyses[2].sample_count = 3
    /\ analyses[2].min_bytes < analyses[2].max_bytes

C24_WitnessEmpty ==
    /\ Len(analyses) = 2
    /\ samples = <<>>
    /\ analyses[2] = MemoryAnalysisDefault

\* C25: the growth rate is the slope between the first and the last sample,
\* (last.usage - first.usage) over the seconds between their timestamps,
\* whatever the samples in between; it is negative when usage shrank over a
\* positive time, and 0 with fewer than 2 samples or with equal timestamps.
C25_TwoPointSlope ==
    \A i \in 1..Len(analyses) :
        LET rate == analyses[i].growth_rate
        IN /\ rate.den > 0
           /\ Len(samples) < 2 => rate.num = 0
           /\ Len(samples) >= 2 =>
                  LET ticks == LastSample.timestamp - FirstSample.timestamp
                      grown == LastSample.usage_bytes - FirstSample.usage_bytes
                  IN /\ ticks = 0 => rate.num = 0
                     /\ ticks > 0 =>
                            /\ rate.num * ticks = grown * TicksPerSecond * rate.den
                            /\ grown < 0 => rate.num < 0

C25_Witness ==
    /\ Analysed
    /\ Len(samples) = 3
    /\ FirstSample.timestamp < LastSample.timestamp
    /\ LastSample.usage_bytes < FirstSample.usage_bytes
    /\ samples[2].usage_bytes > FirstSample.usage_bytes
    /\ samples[2].timestamp > FirstSample.timestamp
    /\ analyses[1].growth_rate.num < 0

\* the fractions a/b (b > 0) ordered as rationals
RateGreater(a, b) == a.num * b.den > b.num * a.den
CandidateRates == {CalculateGrowthRate(h) : h \in {g \in Histories : Len(g) = 2}}

\* C26: has_unbounded_growth(threshold) is true exactly when the growth rate
\* is strictly greater than the threshold; for a non-negative threshold that
\* an analysis exceeds, every analysis with a greater growth rate exceeds it
\* too; has_memory_leak returns the same value.
C26_StrictAndMonotonic ==
    verdict.fn \in {"has_unbounded_growth", "has_memory_leak"} =>
        LET rate == analyses[1].growth_rate
        IN /\ verdict.value <=> rate.num > verdict.threshold * rate.den
           /\ verdict.value /\ verdict.threshold >= 0 =>
                  \A a \in CandidateRates :
                      RateGreater(a, rate) =>
                          /\ HasUnboundedGrowth([analyses[1] EXCEPT !.growth_rate = a],
                                                verdict.threshold)
                          /\ HasMemoryLeak([load_stats |-> LoadStatsDefault,
                                            memory_analysis |->
                                                [analyses[1] EXCEPT !.growth_rate = a]],
                                           verdict.threshold)

C26_Witness ==
    /\ verdict.fn = "has_unbounded_growth"
    /\ verdict.threshold > 0
    /\ analyses[1].growth_rate.num = verdict.threshold * analyses[1].growth_rate.den
    /\ ~verdict.value

C26_WitnessLeak ==
    /\ verdict.fn = "has_memory_leak"
    /\ verdict.threshold >= 0
    /\ verdict.value
    /\ \E a \in CandidateRates : RateGreater(a, analyses[1].growth_rate)

\* C27: would_exceed_limit_in(limit, d) is false whenever the growth rate is
\* <= 0, even with max_bytes above the limit; with a growth rate > 0 it is
\* true exactly when max_bytes + growth_rate * d.seconds > limit.
C27_ProjectionOnlyWhenGrowing ==
    verdict.fn = "would_exceed_limit_in" =>
        LET a == analyses[1]
            rate == a.growth_rate
        IN /\ rate.num <= 0 => ~verdict.value
           /\ rate.num > 0 =>
                  (verdict.value <=>
                       a.max_bytes * rate.den * TicksPerSecond + rate.num * verdict.duration
                           > verdict.limit * rate.den * TicksPerSecond)

C27_Witness ==
    /\ verdict.fn = "would_exceed_limit_in"
    /\ analyses[1].growth_rate.num <= 0
    /\ analyses[1].max_bytes > verdict.limit
    /\ ~verdict.value

C27_WitnessGrowing ==
    /\ verdict.fn = "would_exceed_limit_in"
    /\ analyses[1].growth_rate.num > 0
    /\ analyses[1].max_bytes <= verdict.limit
    /\ verdict.duration > 0
    /\ verdict.value

\* ---------------------------------------------------------------- C28, C29
NotExistsCall == assertion.fn = "assert_span_not_exists"
HasAttributeCall == assertion.fn = "assert_span_has_attribute"
AssertionEnded == assertion.pc = "done"

\* C28: assert_span_not_exists is a fixed wait and then one look at the
\* store: no outcome before the whole wait has passed, even with the span
\* there from the start; it fails exactly when a span with the name is in
\* the store at the one look taken after the wait; the store is inspected
\* once.
C28_FixedWaitThenOneCheck ==
    /\ [](NotExistsCall =>
            /\ ~AssertionEnded =>
                   assertion.outcome = "none" /\ assertion.inspections = 0
            /\ AssertionEnded =>
                   /\ assertion.finished >= assertion.deadline
                   /\ assertion.inspections = 1
                   /\ assertion.outcome \in {"passed", "panic_found"}
                   /\ assertion.outcome = "panic_found"
                          <=> HasSpanNamed(assertion.snapshot, assertion.span_name))
    /\ [][NotExistsCall /\ assertion'.inspections # assertion.inspections =>
              /\ now >= assertion.deadline
              /\ assertion'.snapshot = store
              /\ assertion'.pc = "done"]_vars

C28_Witness ==
    /\ NotExistsCall
    /\ AssertionEnded
    /\ assertion.present_at_start
    /\ assertion.deadline = assertion.started + MaxWait
    /\ assertion.finished = assertion.deadline
    /\ assertion.outcome = "panic_found"

C28_WitnessLateSpan ==
    /\ NotExistsCall
    /\ AssertionEnded
    /\ ~assertion.present_at_start
    /\ assertion.deadline > assertion.started
    /\ assertion.outcome = "panic_found"

C28_WitnessPassed ==
    /\ NotExistsCall
    /\ AssertionEnded
    /\ assertion.outcome = "passed"
    /\ store # <<>>

\* C29: assert_span_has_attribute waits for a span with the name first and
\* inspects attributes only then: when the wait ends without such a span the
\* call fails as not found and no inspection is made; when the wait saw the
\* span there is one inspection, and the call passes exactly when some span
\* with the name carries key = value in the store at that inspection.
C29_ExistenceThenAttributes ==
    /\ [](HasAttributeCall =>
            /\ ~AssertionEnded =>
                   assertion.outcome = "none" /\ assertion.inspections = 0
            /\ AssertionEnded /\ ~HasSpanNamed(store, assertion.span_name) =>
                   assertion.outcome = "panic_not_found"
            /\ AssertionEnded /\ IsErr(assertion.waited) =>
                   /\ assertion.outcome = "panic_not_found"
                   /\ assertion.inspections = 0
                   /\ assertion.finished >= assertion.deadline
            /\ AssertionEnded /\ IsOk(assertion.waited) =>
                   /\ assertion.inspections = 1
                   /\ HasSpanNamed(assertion.snapshot, assertion.span_name)
                   /\ assertion.outcome \in {"passed", "panic_attribute"}
                   /\ assertion.outcome = "passed"
                          <=> HasSpanWithAttribute(assertion.snapshot,
                                                   assertion.span_name,
                                                   assertion.key, assertion.value))
    /\ [][HasAttributeCall /\ assertion'.inspections # assertion.inspections =>
              /\ IsOk(assertion.waited)
              /\ assertion.pc = "inspect"
              /\ assertion'.snapshot = store]_vars

C29_Witness ==
    /\ HasAttributeCall
    /\ AssertionEnded
    /\ ~assertion.present_at_start
    /\ assertion.outcome = "passed"
    /\ Len(assertion.snapshot) = 2
    /\ assertion.snapshot[1].name = assertion.span_name
    /\ <<assertion.key, assertion.value>> \notin assertion.snapshot[1].attributes

C29_WitnessNotFound ==
    /\ HasAttributeCall
    /\ AssertionEnded
    /\ assertion.outcome = "panic_not_found"
    /\ assertion.inspections = 0
    /\ store # <<>>

C29_WitnessWrongValue ==
    /\ HasAttributeCall
    /\ AssertionEnded
    /\ assertion.outcome = "panic_attribute"
    /\ assertion.snapshot[1].attributes # {}

\* ---------------------------------------------------------------- C31
\* C31: the TelemetryClient that run_load_test built has had shutdown()
\* called on it whenever run_load_test has returned, on success and on a
\* failure of the load run or of the monitoring run alike.
C31_ClientShutDownOnEveryExit ==
    rl_pc = "returned" /\ client # "none" => client = "shutdown"

\* ---------------------------------------------------------------- C32
ErrorKindOf(op) == IF op = "flush" THEN "Flush" ELSE "Shutdown"

\* C32: flush and shutdown go through the providers in the order traces,
\* metrics, logs and stop at the first failure: the error names the first
\* failing signal, no provider after it is reached, and Ok is returned only
\* when all three succeeded.
C32_FixedOrderFirstFailure ==
    \A i \in 1..Len(client_calls) :
        LET call == client_calls[i]
            n == Len(call.reached)
        IN /\ n \in 1..Len(Signals)
           /\ call.reached = SubSeq(Signals, 1, n)
           /\ \A j \in 1..(n - 1) : call.reached[j] \notin call.failing
           /\ IsOk(call.result) <=> call.failing = {}
           /\ IsOk(call.result) => call.reached = <<"traces", "metrics", "logs">>
           /\ IsErr(call.result) =>
                  /\ call.result.error.kind = ErrorKindOf(call.op)
                  /\ call.result.error.signal = call.reached[n]
                  /\ call.reached[n] \in call.failing

C32_Witness ==
    /\ Len(client_calls) = 2
    /\ client_calls[1].op = "flush"
    /\ client_calls[1].failing = {"metrics", "logs"}
    /\ client_calls[1].reached = <<"traces", "metrics">>
    /\ client_calls[1].result = Err([kind |-> "Flush", signal |-> "metrics"])
    /\ client_calls[2].op = "shutdown"
    /\ client_calls[2].failing = {"logs"}
    /\ client_calls[2].result = Err([kind |-> "Shutdown", signal |-> "logs"])

\* ---------------------------------------------------------------- C33
\* C33: a sample() that fails leaves the history as it was, and when
\* monitor_continuous has ended with an error every sample taken before the
\* failure is still there, in order: a later failure loses no sample.
C33_FailureKeepsHistory ==
    /\ [](mon.pc = "done" /\ IsErr(mon.result) =>
            /\ Len(samples) = mon.attempts - 1
            /\ \A i \in 1..Len(samples) :
                   samples[i].timestamp = mon.start + (i - 1) * monitor_interval)
    /\ [][/\ Len(samples') >= Len(samples)
          /\ SubSeq(samples', 1, Len(samples)) = samples
          /\ (mon.pc = "sample" /\ IsErr(mon'.result)) => samples' = samples]_vars

C33_Witness ==
    /\ mon.pc = "done"
    /\ IsErr(mon.result)
    /\ mon.attempts = 3
    /\ Len(samples) = 2
    /\ samples[1].timestamp < samples[2].timestamp

\* ---------------------------------------------------------------- C34
AnalysePanicked == verdict.fn = "analyse"

\* C34: on every non-empty history analyse() returns, with min_bytes and
\* max_bytes the smallest and the largest usage_bytes of all samples,
\* avg_bytes the floor of their sum over their count, and
\* min_bytes <= avg_bytes <= max_bytes.
C34_AvgBetweenMinAndMax ==
    /\ ~AnalysePanicked
    /\ samples # <<>> =>
           \A i \in 1..Len(analyses) :
               LET a == analyses[i]
               IN /\ \A k \in 1..Len(samples) :
                         a.min_bytes <= samples[k].usage_bytes
                         /\ samples[k].usage_bytes <= a.max_bytes
                  /\ \E k \in 1..Len(samples) : a.min_bytes = samples[k].usage_bytes
                  /\ \E k \in 1..Len(samples) : a.max_bytes = samples[k].usage_bytes
                  /\ a.avg_bytes = WrappingSum(samples) \div Len(samples)
                  /\ a.min_bytes <= a.avg_bytes
                  /\ a.avg_bytes <= a.max_bytes

\* ---------------------------------------------------------------- C35
\* what a run on schedule returns, from the span rate and the duration alone
ExpectedSpans ==
    IF config.spans_per_second = 0 THEN 0
    ELSE CeilDiv(config.duration, Period) + 1
ExpectedDuration ==
    IF config.spans_per_second = 0 THEN 0
    ELSE CeilDiv(config.duration, Period) * Period

\* C35: run emits spans only: metrics_sent and logs_sent stay 0 whatever
\* metrics_per_second and logs_per_second are, and spans_sent, errors and
\* the duration of the returned LoadStats do not depend on these two rates.
C35_OnlySpans ==
    /\ gen.stats.metrics_sent = 0
    /\ gen.stats.logs_sent = 0
    /\ RunReturnedOk =>
           /\ gen.result.value.metrics_sent = 0
           /\ gen.result.value.logs_sent = 0
           /\ gen.result.value.spans_sent = ExpectedSpans
           /\ gen.result.value.errors = 0
           /\ gen.result.value.duration = ExpectedDuration

C35_Witness ==
    /\ RunReturnedOk
    /\ config.metrics_per_second > 0
    /\ config.logs_per_second > 0
    /\ gen.result.value.spans_sent >= 3
    /\ gen.result.value.metrics_sent = 0

\* ---------------------------------------------------------------- C36
\* C36: for every LoadConfig with spans_per_second > 0, unique_span_names = 0
\* and span_attributes_count = 0 included, run ends with a result and is
\* never aborted while it computes a span name.
C36_NeverAbortsOnSpanName ==
    config.spans_per_second > 0 => gen.pc # "panicked" /\ rl_pc # "panicked"

\* ---------------------------------------------------------------- C37
BothEnded == RunEnded /\ gen_all.pc \in {"done", "panicked"}

\* C37: run and run_all are observationally equivalent: on the same
\* LoadConfig and tick schedule they emit the same span names with the same
\* attribute counts, flush at the same point, and return equal LoadStats.
C37_RunAllEquivalent ==
    /\ Len(gen_all.emitted) <= Len(emitted)
    /\ \A k \in 1..Len(gen_all.emitted) :
           /\ gen_all.emitted[k].name = emitted[k].name
           /\ Len(gen_all.emitted[k].attributes) = Len(emitted[k].attributes)
    /\ gen_all.flushes = 1 => gen_all.pc = "done" /\ gen_all.ticks = gen.ticks
    /\ BothEnded =>
           /\ gen_all.pc = gen.pc
           /\ Len(gen_all.emitted) = Len(emitted)
           /\ gen_all.ticks = gen.ticks
           /\ gen_all.flushes = gen.flushes
           /\ gen_all.stats = gen.stats
           /\ gen_all.flush = gen.flush => gen_all.result = gen.result

C37_Witness ==
    /\ BothEnded
    /\ gen.pc = "done"
    /\ IsOk(gen.result) /\ IsOk(gen_all.result)
    /\ Len(gen_all.emitted) >= 3
    /\ config.unique_span_names = 2
    /\ gen_all.emitted[3].name = "load-span-0"
    /\ gen_all.result = gen.result

C37_WitnessPanic ==
    /\ BothEnded
    /\ gen.pc = "panicked"
    /\ gen_all.pc = "panicked"

\* ---------------------------------------------------------------- C38
Applied == collector_config.state = "parsed" /\ collector_config.endpoints # <<>>
ApplyFailed == collector_config.state = "failed"
PipelinesIn == collector_config.input.service.pipelines.entries
PipelinesOut == collector_config.value.service.pipelines.entries
ExportersIn == collector_config.input.exporters.entries
ExportersOut == collector_config.value.exporters.entries
LastEndpoint == collector_config.endpoints[Len(collector_config.endpoints)]
Count(seq, x) == Cardinality({i \in 1..Len(seq) : seq[i] = x})
InputIsWellFormed ==
    /\ collector_config.input.exporters.kind = "mapping"
    /\ collector_config.input.service.kind = "mapping"
    /\ collector_config.input.service.pipelines.kind = "mapping"
\* the exporters map holds one otlp/mock entry, with the last endpoint, and
\* the entries it had are kept in their order
MockEntryIsLast ==
    /\ Cardinality({i \in 1..Len(ExportersOut) : ExportersOut[i].key = MockExporter}) = 1
    /\ \A i \in 1..Len(ExportersOut) :
           ExportersOut[i].key = MockExporter => ExportersOut[i].value = LastEndpoint
    /\ \A i \in 1..Len(ExportersIn) : ExportersOut[i].key = ExportersIn[i].key
    /\ \A i \in 1..Len(ExportersIn) :
           ExportersIn[i].key # MockExporter => ExportersOut[i] = ExportersIn[i]
\* the call fails exactly on a section that is not a mapping, with a Config
\* error
FailsOnNonMapping ==
    /\ collector_config.state # "none" /\ collector_config.endpoints # <<>> =>
           (ApplyFailed <=> ~InputIsWellFormed)
    /\ ApplyFailed =>
           /\ IsErr(collector_config.result)
           /\ collector_config.result.error.kind = "Config"

\* C38 as claimed: after one or more applications every pipeline whose
\* exporters entry is a list or is missing lists otlp/mock exactly once,
\* with the exporters it listed kept in order; the exporters map has one
\* otlp/mock entry with the last endpoint; a section that is not a mapping
\* gives a Config error.
C38_ListedExactlyOnce ==
    /\ FailsOnNonMapping
    /\ Applied =>
           /\ MockEntryIsLast
           /\ Len(PipelinesOut) = Len(PipelinesIn)
           /\ \A i \in 1..Len(PipelinesIn) :
                  (/\ PipelinesIn[i].kind = "mapping"
                   /\ PipelinesIn[i].exporters.kind \in {"sequence", "missing"}) =>
                      /\ PipelinesOut[i].exporters.kind = "sequence"
                      /\ Count(PipelinesOut[i].exporters.items, MockExporter) = 1
                      /\ SubSeq(PipelinesOut[i].exporters.items, 1,
                                Len(PipelinesIn[i].exporters.items))
                             = PipelinesIn[i].exporters.items

\* C38 amended: after one or more applications every pipeline that is a
\* mapping and whose exporters entry is a list or is missing lists otlp/mock:
\* appended once at the end when the list did not have it, and the list left
\* exactly as it was when it had it (once or more often); pipelines that are
\* not mappings and exporters entries that are not lists are left alone; a
\* further application changes no pipeline; the exporters map has one
\* otlp/mock entry with the last endpoint; a section that is not a mapping
\* gives a Config error.
C38_ListedOnceUnlessRepeated ==
    /\ [](/\ FailsOnNonMapping
          /\ Applied =>
                 /\ MockEntryIsLast
                 /\ Len(PipelinesOut) = Len(PipelinesIn)
                 /\ \A i \in 1..Len(PipelinesIn) :
                        LET in == PipelinesIn[i]
                            out == PipelinesOut[i]
                        IN /\ in.kind # "mapping" => out = in
                           /\ in.kind = "mapping" /\ in.exporters.kind = "scalar" =>
                                  out = in
                           /\ in.kind = "mapping" /\ in.exporters.kind = "missing" =>
                                  out.exporters =
                                      [kind |-> "sequence", items |-> <<MockExporter>>]
                           /\ in.kind = "mapping" /\ in.exporters.kind = "sequence" =>
                                  /\ out.exporters.kind = "sequence"
                                  /\ out.exporters.items =
                                         IF Count(in.exporters.items, MockExporter) = 0
                                         THEN in.exporters.items \o <<MockExporter>>
                                         ELSE in.exporters.items)
    /\ [][Applied /\ collector_config'.state = "parsed" =>
              collector_config'.value.service = collector_config.value.service]_vars

C38_Witness ==
    /\ Applied
    /\ collector_config.endpoints = <<"e1", "e2">>
    /\ Len(PipelinesIn) = 2
    /\ PipelinesIn[1].kind = "mapping"
    /\ PipelinesIn[1].exporters = [kind |-> "sequence", items |-> <<"debug">>]
    /\ PipelinesOut[1].exporters.items = <<"debug", "otlp/mock">>
    /\ PipelinesIn[2].kind = "mapping"
    /\ PipelinesIn[2].exporters.kind = "missing"
    /\ PipelinesOut[2].exporters.items = <<"otlp/mock">>
    /\ ExportersIn = <<[key |-> "otlp/mock", value |-> "old"],
                       [key |-> "debug", value |-> "old"]>>
    /\ ExportersOut[1] = [key |-> "otlp/mock", value |-> "e2"]

====
